---- MODULE Spec2Model ----
(***************************************************************************)
(* A model of the calchart editor core: the two-step continuity's          *)
(* resolution (TwoStepContinuity.getMovements), the Sheet and the Dot      *)
(* point-in-time query, and the EditorController's undo/redo history.      *)
(* Each part has its own specification over the variables it uses; the     *)
(* other variables keep their initial value.                               *)
(***************************************************************************)
EXTENDS Integers, Sequences, FiniteSets, TLC

\* ------------------------------------------------------------------ bounds
NumDots == 3        \* dots of the show
MaxBeats == 6       \* largest beat count of a sheet / of a cursor
MaxNested == 2      \* longest nested continuity list of a two-step
MaxStep == 1        \* largest beat count of a nested continuity
MaxCmds == 3        \* longest movement list drawn for the Dot query
MaxDur == 3         \* largest duration of a drawn movement command
MaxHist == 3        \* deepest undo / redo stack
NumSongs == 2       \* songs of the show
NumSheets == 2      \* sheets of the show
MaxStates == 1      \* most states the store's History holds besides the first
MaxConts == 2       \* longest continuity list of the sheet's dot type
MaxLoads == 3       \* most loads of the default context
MaxUpdates == 4     \* most recomputations of a gate turn's dot type
MaxPoint == 2       \* farthest place of the pointer in the workspace
MaxSaves == 2       \* most moveDotsTo actions dispatched by the edit tools

\* ------------------------------------------------------------------ values
LabelNames == <<"A", "B", "C", "D", "E", "F">>
Labels == {LabelNames[i] : i \in 1..NumDots}

Coordinate(x, y) == [x |-> x, y |-> y]
Positions == {Coordinate(0, 0), Coordinate(1, 2)}

\* sequences over S of length 0..n
RECURSIVE SeqsUpTo(_, _)
SeqsUpTo(S, n) ==
    IF n = 0 THEN {<<>>}
    ELSE LET shorter == SeqsUpTo(S, n - 1)
         IN  shorter \cup {Append(s, e) : s \in {t \in shorter : Len(t) = n - 1}, e \in S}

NoRepeat(s) == \A i, j \in 1..Len(s) : i # j => s[i] # s[j]

\* ------------------------------------------------------ movement commands
\* MovementCommandStop(x, y, orientation, duration, isMarktime, options)
MovementCommandStop(x, y, duration, isMarktime) ==
    [type |-> "stop", start |-> Coordinate(x, y), end |-> Coordinate(x, y),
     duration |-> duration, marktime |-> isMarktime]

\* MovementCommandMove: a straight move of `duration` beats, one step east per beat
MovementCommandMove(x, y, duration) ==
    [type |-> "move", start |-> Coordinate(x, y), end |-> Coordinate(x + duration, y),
     duration |-> duration, marktime |-> FALSE]

getDuration(movement) == movement.duration
getEndPosition(movement) == movement.end

RECURSIVE SumDurations(_)
SumDurations(moves) ==
    IF moves = <<>> THEN 0
    ELSE getDuration(Head(moves)) + SumDurations(Tail(moves))

\* ------------------------------------------------------------ continuities
\* The continuities a two-step nests: "fwd" marches `beats` beats east,
\* "mt" marks time for `beats` beats.  A continuity that needs more beats
\* than the cursor has left ends in a validation error.
Nested == [kind : {"fwd"}, beats : 1..MaxStep] \cup [kind : {"mt"}, beats : 0..MaxStep]

Cursor(position, remaining) == [position |-> position, remaining |-> remaining]

NestedGetMovements(continuity, dot, data) ==
    IF continuity.beats > data.remaining
    THEN [err |-> TRUE, moves |-> <<>>]
    ELSE [err |-> FALSE,
          moves |-> IF continuity.kind = "fwd"
                    THEN <<MovementCommandMove(data.position.x, data.position.y, continuity.beats)>>
                    ELSE <<MovementCommandStop(data.position.x, data.position.y, continuity.beats, TRUE)>>]

\* Array.prototype.indexOf, 0-based, -1 when absent
RECURSIVE IndexFrom(_, _, _)
IndexFrom(array, x, i) ==
    IF i > Len(array) THEN -1
    ELSE IF array[i] = x THEN i - 1
    ELSE IndexFrom(array, x, i + 1)

indexOf(array, x) == IndexFrom(array, x, 1)

\* a forEach that forgets to move the cursor's position along
AdvanceRemainingOnly(data, moves) ==
    Cursor(data.position, data.remaining - SumDurations(moves))

\* moves.forEach(movement => { data.position = ...; data.remaining -= ... })
RECURSIVE Advance(_, _)
Advance(data, moves) ==
    IF moves = <<>> THEN data
    ELSE Advance(Cursor(getEndPosition(Head(moves)),
                        data.remaining - getDuration(Head(moves))),
                 Tail(moves))

\* _.clone(data): a new object with the same position and remaining
clone(data) == Cursor(data.position, data.remaining)

\* _.flatMap(this._continuities, continuity => ...) of getMovements: acc holds
\* the caller's cursor object, the commands so far, and for every nested
\* continuity run so far the cursor it was handed and the commands it gave.
RECURSIVE FlatMapContinuities(_, _, _)
FlatMapContinuities(continuities, dot, acc) ==
    IF continuities = <<>> THEN acc
    ELSE LET arg == clone(acc.data)
             r == NestedGetMovements(Head(continuities), dot, arg)
         IN  IF r.err
             THEN [acc EXCEPT !.err = TRUE, !.calls = Append(@, arg)]
             ELSE FlatMapContinuities(Tail(continuities), dot,
                      [err |-> FALSE,
                       data |-> Advance(acc.data, r.moves),
                       moves |-> acc.moves \o r.moves,
                       calls |-> Append(acc.calls, arg),
                       parts |-> Append(acc.parts, r.moves)])

\* a stagger that grows with the number of dots in the order
TwoStepWaitByCount(order, dot) == indexOf(order, dot) * Len(order)

\* let wait = this._order.indexOf(dot) * 2;
TwoStepWait(order, dot) == indexOf(order, dot) * 2

\* data.remaining -= stop.getDuration();
AfterStop(data, stop) == Cursor(data.position, data.remaining - getDuration(stop))

\* TwoStepContinuity.getMovements(dot, data).  The result holds what the call
\* returns (moves), whether it threw (err), the caller's cursor object as the
\* call leaves it (data), and the nested calls it made (calls, parts).
TwoStepGetMovements(continuity, dot, data) ==
    LET wait == TwoStepWait(continuity.order, dot)
        stop == MovementCommandStop(data.position.x, data.position.y, wait,
                                    continuity.isMarktime)
        run == FlatMapContinuities(continuity.continuities, dot,
                   [err |-> FALSE, data |-> AfterStop(data, stop), moves |-> <<>>,
                    calls |-> <<>>, parts |-> <<>>])
    IN  [run EXCEPT !.moves = IF run.err THEN <<>> ELSE <<stop>> \o run.moves]


\* ------------------------------------------------------------ Sheet and Dot
DotTypePLAIN == "plain"

\* the entry Sheet.create makes for every dot label
CreatedInfo == [type |-> DotTypePLAIN, position |-> Coordinate(0, 0), movements |-> <<>>]

\* Sheet.create(show, numBeats, dotLabels): sheet._dots
SheetCreateDots(dotLabels) == [label \in dotLabels |-> CreatedInfo]

\* what JavaScript gives for a property that is not there
Undefined == [undefined |-> TRUE]

\* a Dot object and a label string, as arguments of Sheet.getInfoForDot
DotObject(label) == [kind |-> "Dot", label |-> label]
LabelString(label) == [kind |-> "string", label |-> label]

\* the property key JavaScript makes of the value in this._dots[dot]
PropertyKey(arg) == IF arg.kind = "string" THEN arg.label ELSE "[object Object]"

\* Sheet.prototype.getInfoForDot(dot): this._dots[dot]
getInfoForDot(sheetDots, arg) ==
    IF PropertyKey(arg) \in DOMAIN sheetDots THEN sheetDots[PropertyKey(arg)] ELSE Undefined

\* Dot.prototype.getSheetInfo(sheet), for the dot `label`; withSheet says
\* whether the sheet argument is given, isLoaded whether _sheetInfo is set
getSheetInfo(sheetDots, label, isLoaded, withSheet) ==
    IF withSheet
    THEN [pc |-> "returned", value |-> getInfoForDot(sheetDots, DotObject(label))]
    ELSE IF isLoaded
    THEN [pc |-> "returned", value |-> getInfoForDot(sheetDots, LabelString(label))]
    ELSE [pc |-> "threw", value |-> Undefined]

\* MovementCommand.getAnimationState(beatNum): the position `offset` beats in
AnimationState(movement, offset) ==
    IF movement.type = "stop" THEN movement.start
    ELSE Coordinate(movement.start.x + offset, movement.start.y)

NoState == Coordinate(-1, -1)
NoError == [name |-> "none", label |-> "", beats |-> 0]

\* the AnimationStateError of getAnimationState: its message is
\* "Ran out of movements for " + label + ": " + remaining + " beats remaining"
AnimationStateError(label, remaining) ==
    [name |-> "AnimationStateError", label |-> label, beats |-> remaining]

\* a scan that takes a command only when the beat falls strictly inside it
RECURSIVE ScanMovementsStrict(_, _, _, _)
ScanMovementsStrict(movements, i, remaining, label) ==
    IF i > Len(movements)
    THEN [pc |-> "threw", error |-> AnimationStateError(label, remaining),
          index |-> 0, offset |-> 0, state |-> NoState]
    ELSE IF remaining < getDuration(movements[i])
    THEN [pc |-> "returned", error |-> NoError, index |-> i, offset |-> remaining,
          state |-> AnimationState(movements[i], remaining)]
    ELSE ScanMovementsStrict(movements, i + 1, remaining - getDuration(movements[i]), label)

\* the loop of Dot.prototype.getAnimationState over movements[i..]
RECURSIVE ScanMovements(_, _, _, _)
ScanMovements(movements, i, remaining, label) ==
    IF i > Len(movements)
    THEN [pc |-> "threw", error |-> AnimationStateError(label, remaining),
          index |-> 0, offset |-> 0, state |-> NoState]
    ELSE IF remaining <= getDuration(movements[i])
    THEN [pc |-> "returned", error |-> NoError, index |-> i, offset |-> remaining,
          state |-> AnimationState(movements[i], remaining)]
    ELSE ScanMovements(movements, i + 1, remaining - getDuration(movements[i]), label)

\* reading a property of undefined, and getSheetInfo's "No sheet is currently loaded"
TypeError == [name |-> "TypeError", label |-> "", beats |-> 0]
NoSheetError == [name |-> "Error", label |-> "", beats |-> 0]

Threw(error) == [pc |-> "threw", error |-> error, index |-> 0, offset |-> 0, state |-> NoState]

\* Dot.prototype.getAnimationState(beatNum, sheet)
getAnimationState(sheetDots, label, isLoaded, beatNum, withSheet) ==
    LET info == getSheetInfo(sheetDots, label, isLoaded, withSheet)
    IN  IF info.pc = "threw" THEN Threw(NoSheetError)
        ELSE IF info.value = Undefined THEN Threw(TypeError)
        ELSE ScanMovements(info.value.movements, 1, beatNum, label)

\* Dot.prototype.getFirstPosition(sheet)
getFirstPosition(sheetDots, label, isLoaded, withSheet) ==
    LET info == getSheetInfo(sheetDots, label, isLoaded, withSheet)
    IN  IF info.pc = "threw" THEN Threw(NoSheetError)
        ELSE IF info.value = Undefined THEN Threw(TypeError)
        ELSE [pc |-> "returned", error |-> NoError, index |-> 0, offset |-> 0,
              state |-> info.value.position]

\* Dot.prototype.getLastPosition(sheet)
getLastPosition(sheetDots, label, isLoaded, withSheet) ==
    LET info == getSheetInfo(sheetDots, label, isLoaded, withSheet)
    IN  IF info.pc = "threw" THEN Threw(NoSheetError)
        ELSE IF info.value = Undefined THEN Threw(TypeError)
        ELSE [pc |-> "returned", error |-> NoError, index |-> 0, offset |-> 0,
              state |-> IF Len(info.value.movements) = 0 THEN info.value.position
                        ELSE getEndPosition(info.value.movements[Len(info.value.movements)])]

VARIABLES
    two,        \* the TwoStepContinuity under resolution: order, continuities, isMarktime
    gm,         \* the last getMovements call: its arguments and its outcome
    numBeats,   \* Sheet._numBeats
    dots,       \* Sheet._dots: label -> {type, position, movements}
    continuities, \* Sheet._continuities[DotType.PLAIN]
    loaded,     \* the dots whose _sheetInfo is the sheet's entry (null for the others)
    q,          \* the last query made of a Dot: its arguments and its outcome
    undoHistory, \* EditorController._undoHistory
    redoHistory, \* EditorController._redoHistory
    content,    \* $(".content"): where the page shows the selected dot
    did,        \* the last call of EditorController.do: its arguments and entry state
    mut,        \* the last mutation of the sheet or of the two-step, and what it ran
    show,       \* the Show in the store: its songs' sheets and its sheets' songs
    store,      \* the editor module of the store: its History, and its last handler
    popup,      \* the add-stuntsheet popup: whether it is shown, how it was last answered
    tool,       \* EditTools and the context's current edit tool
    ctx,        \* the contexts loaded by the controller and the handlers registered
    gate        \* a GateTurnContinuity, its sheet's recomputations, the undo it returned

vars == <<two, gm, numBeats, dots, continuities, loaded, q,
          undoHistory, redoHistory, content, did, mut, show, store,
          popup, tool, ctx, gate>>
twoStepVars == <<two, gm>>
sheetVars == <<numBeats, dots, continuities, loaded, q>>
editorVars == <<undoHistory, redoHistory, content, did>>
storeVars == <<show, store>>
uiVars == <<popup, tool, ctx, gate>>

\* ------------------------------------------------------------------- Song
Songs == 1..NumSongs
SheetIds == 1..NumSheets

\* sheet.getSong() of a sheet that is in no song
NoSong == 0

\* Set.prototype.add, Set.prototype.delete and Set.prototype.has, on the
\* elements of the Set in the order they were inserted
SetAdd(set, x) == IF \E i \in 1..Len(set) : set[i] = x THEN set ELSE Append(set, x)
SetDelete(set, x) == SelectSeq(set, LAMBDA y : y # x)
SetHas(set, x) == \E i \in 1..Len(set) : set[i] = x

\* the songs created by Song.create(show, name) in a show whose sheets are
\* in no song; formations is show.formations.length
ShowCreated(formations) ==
    [sheets |-> [g \in Songs |-> <<>>], song |-> [s \in SheetIds |-> NoSong],
     formations |-> formations]

\* Song.prototype.hasSheet(sheet)
hasSheet(sh, g, s) == SetHas(sh.sheets[g], s)

\* sheet.getSong() and sheet.setSong(song)
getSong(sh, s) == sh.song[s]
setSong(sh, s, g) == [sh EXCEPT !.song[s] = g]

\* Song.prototype.removeSheet(sheet)
removeSheet(sh, g, s) == setSong([sh EXCEPT !.sheets[g] = SetDelete(@, s)], s, NoSong)

\* Song.prototype.addSheet(sheet)
addSheet(sh, g, s) ==
    LET added == [sh EXCEPT !.sheets[g] = SetAdd(@, s)]
        song == getSong(added, s)
        removed == IF song # NoSong THEN removeSheet(added, song, s) ELSE added
    IN  setSong(removed, s, g)

\* the value of an enum member (this._orientation.value) and the member
\* itself; every song of the model has the default orientation and step type
EnumValue == "value"
EnumMember == "member"

\* Orientation.fromValue / StepType.fromValue: the member for a value
fromValue(value) == EnumMember

\* Song.prototype.serialize: the values of its enums and the index of every
\* sheet of the Set, in its order
SongSerialize(sh, g) ==
    [sheets |-> sh.sheets[g], stepType |-> EnumValue, orientation |-> EnumValue]

\* new Set(sheets) of the Song constructor
RECURSIVE NewSet(_)
NewSet(list) == IF list = <<>> THEN <<>> ELSE SetAdd(NewSet(SubSeq(list, 1, Len(list) - 1)), list[Len(list)])

\* Song.deserialize(show, data): the Set of the sheets the indices name
SongDeserialize(data) == NewSet(data.sheets)

\* the data object after Song.deserialize(show, data), which assigns the
\* enum members to data.orientation and data.stepType
SongDeserializeData(data) ==
    [data EXCEPT !.orientation = fromValue(@), !.stepType = fromValue(@)]

\* show.serialize(): every song serialized
ShowSerialize(sh) ==
    [songs |-> [g \in Songs |-> SongSerialize(sh, g)], formations |-> sh.formations]

\* Show.deserialize(state): every song deserialized, every sheet in the
\* first song that lists it
ShowDeserialize(state) ==
    LET sheets == [g \in Songs |-> SongDeserialize(state.songs[g])]
        listing(s) == {g \in Songs : SetHas(sheets[g], s)}
    IN  [sheets |-> sheets,
         song |-> [s \in SheetIds |->
                     IF listing(s) = {} THEN NoSong
                     ELSE CHOOSE g \in listing(s) : \A h \in listing(s) : g <= h],
         formations |-> state.formations]

\* the state object after Show.deserialize(state) has handed each of its
\* songs to Song.deserialize
ShowDeserializeData(state) ==
    [state EXCEPT !.songs = [g \in Songs |-> SongDeserializeData(@[g])]]

\* ---------------------------------------------------------------- History
\* new History(state)
HistoryNew(state) == [initial |-> state, undo |-> <<>>, redo |-> <<>>]

\* history.addState(label, state)
addState(h, label, state) ==
    [h EXCEPT !.undo = Append(@, [label |-> label, snapshot |-> state]), !.redo = <<>>]

\* history.undo(): the history after it and the state it returns
HistoryUndo(h) ==
    IF h.undo = <<>> THEN [history |-> h, state |-> Undefined]
    ELSE LET rest == SubSeq(h.undo, 1, Len(h.undo) - 1)
         IN  [history |-> [h EXCEPT !.undo = rest, !.redo = Append(@, h.undo[Len(h.undo)])],
              state |-> IF rest = <<>> THEN h.initial ELSE rest[Len(rest)].snapshot]

\* history.redo(): the history after it and the state it returns
HistoryRedo(h) ==
    IF h.redo = <<>> THEN [history |-> h, state |-> Undefined]
    ELSE LET top == h.redo[Len(h.redo)]
         IN  [history |-> [h EXCEPT !.redo = SubSeq(@, 1, Len(@) - 1), !.undo = Append(@, top)],
              state |-> top.snapshot]

\* the History whose current state object (the one undo() or redo() has just
\* returned: the top of the undo stack, or the first state) is now `state`
withCurrent(h, state) ==
    IF h.undo = <<>> THEN [h EXCEPT !.initial = state]
    ELSE [h EXCEPT !.undo[Len(h.undo)].snapshot = state]

\* ------------------------------------------------------- store/editor.js
\* the methods modifyShow may be asked to run on a song
SongFuncs == {"addSheet", "removeSheet"}

\* target[func].apply(target, args), for a song as the target
applyFunc(sh, target, func, arg) ==
    IF func = "addSheet" THEN addSheet(sh, target, arg) ELSE removeSheet(sh, target, arg)

\* a modifyShow that records the show before func has run
modifyShowRecordsFirst(sh, h, target, func, arg) ==
    [show |-> applyFunc(sh, target, func, arg),
     history |-> addState(h, func, ShowSerialize(sh))]

\* mutations.modifyShow(state, {target, func, args, show})
modifyShow(sh, h, target, func, arg) ==
    LET applied == applyFunc(sh, target, func, arg)
    IN  [show |-> applied, history |-> addState(h, func, ShowSerialize(applied))]

NoHandler == [op |-> "none", pc |-> "none", func |-> "", state |-> Undefined,
              deserialized |-> FALSE, showBefore |-> ShowCreated(0),
              historyBefore |-> HistoryNew(ShowSerialize(ShowCreated(0)))]

\* actions.reset(context), for the show in the store
reset(sh) ==
    [history |-> HistoryNew(ShowSerialize(sh)),
     context |-> "formation",
     formation |-> IF sh.formations > 0 THEN "ofShow" ELSE "null",
     tool |-> "EditDotTool",
     last |-> NoHandler]

\* the store once the editor has been reset for a show just created
StoreCreated ==
    /\ show = ShowCreated(0)
    /\ store = reset(show)

\* ------------------------------------------------- the add-stuntsheet popup
\* no popup shown, no sheet added through it
NoPopup == [shown |-> FALSE, answer |-> "none", sheets |-> 0]

\* UIUtils.showPopup("add-stuntsheet", {onSubmit}): the popup is up, unanswered
showPopup(p) == [p EXCEPT !.shown = TRUE, !.answer = "none"]

\* what the user may have typed for the number of beats
NumBeatsInputs == {"", "0", "-4", "8", "abc"}

\* parseInt(data.num_beats): a number, or NaN for a string with no leading digits
NaN == [nan |-> TRUE, value |-> 0]
Number(value) == [nan |-> FALSE, value |-> value]
parseInt(string) ==
    CASE string = "0" -> Number(0)
      [] string = "-4" -> Number(-4)
      [] string = "8" -> Number(8)
      [] OTHER -> NaN

\* a <= b of two numbers: false when either is NaN
lessOrEqual(a, b) == ~a.nan /\ ~b.nan /\ a.value <= b.value

\* the onSubmit handler of addStuntsheet: an empty or non-positive number of
\* beats shows an error and returns, anything else adds a sheet to the show
\* and hides the popup
onSubmit(p, num_beats) ==
    IF num_beats = "" THEN [p EXCEPT !.answer = "invalid"]
    ELSE IF lessOrEqual(parseInt(num_beats), Number(0))
         THEN [p EXCEPT !.answer = "invalid"]
         ELSE [p EXCEPT !.sheets = @ + 1, !.shown = FALSE, !.answer = "added"]

\* the popup's cancel button
hidePopup(p) == [p EXCEPT !.shown = FALSE, !.answer = "cancelled"]

\* ------------------------------------------------------------- EditTools
\* the names EditTools.load has a class for, by superclass
BaseSelectionTools == {"selection", "lasso"}
BaseEditTools == {"line", "arc", "block", "circle"}
ToolNames == BaseSelectionTools \cup BaseEditTools \cup {"swap", "stretch"}

\* places of the pointer along a line of the workspace; no place yet
ToolPoints == 0..MaxPoint
Unset == -1

\* calcDistance between two places
calcDistance(a, b) == IF a >= b THEN a - b ELSE b - a

\* the fields of an ArcTool when constructed and loaded
NewTool == [drawEnd |-> FALSE, origin |-> Unset, radius |-> Unset, path |-> FALSE]

\* what the claims read of the tool state before an event
ToolView(t) ==
    [current |-> t.current, lastSelectionTool |-> t.lastSelectionTool,
     drawEnd |-> t.arc.drawEnd, origin |-> t.arc.origin, radius |-> t.arc.radius,
     moveDotsTo |-> t.moveDotsTo]

\* EditTools before any load (the static _lastSelectionTool is not set), a
\* context with no tool, no mouse listeners on, nothing dispatched; arc is
\* the ArcTool constructed last, which stays as it is once another tool is
\* the context's
NoTool ==
    [current |-> "none", lastSelectionTool |-> "undefined", arc |-> NewTool,
     listening |-> FALSE, moveDotsTo |-> 0,
     last |-> [event |-> "none", name |-> "", pc |-> "none", isDone |-> "none",
               before |-> [current |-> "none", lastSelectionTool |-> "undefined",
                           drawEnd |-> FALSE, origin |-> Unset, radius |-> Unset,
                           moveDotsTo |-> 0]]]

\* EditTools.load(context, name): throws for a name it has no class for;
\* else constructs the tool, notes a selection tool's name and runs
\* tool.load() (ArcTool.load sets _drawEnd = false)
EditToolsLoad(t, name) ==
    IF name \notin ToolNames THEN [threw |-> TRUE, tool |-> t]
    ELSE [threw |-> FALSE,
          tool |-> [t EXCEPT !.lastSelectionTool =
                                 IF name \in BaseSelectionTools THEN name ELSE @,
                             !.current = name,
                             !.arc = IF name = "arc" THEN NewTool ELSE @]]

\* context.loadTool(name): the context's tool becomes the one EditTools loads
loadTool(t, name) == EditToolsLoad(t, name)

\* BaseEdit._saveDotPositions: controller.doAction("moveDotsTo", [data])
saveDotPositions(t) == [t EXCEPT !.moveDotsTo = @ + 1]

\* BaseEdit.mouseup: save, then load the last selection tool
BaseEditMouseup(t) == loadTool(saveDotPositions(t), t.lastSelectionTool)

\* ArcTool.isDone: toggles _drawEnd and returns its negation
ArcToolIsDone(t) ==
    LET toggled == [t EXCEPT !.arc.drawEnd = ~@]
    IN  [tool |-> toggled, value |-> ~toggled.arc.drawEnd]

\* ArcTool.mousemoveRadius: the radius from the origin to the pointer
mousemoveRadius(t, x) == [t EXCEPT !.arc.radius = calcDistance(t.arc.origin, x)]

\* ArcTool.mousemove: the radius while the first phase lasts, the arc after;
\* this._path is undefined (a TypeError) before the tool's first mousedown
ArcToolMousemove(t, x) ==
    IF t.arc.drawEnd THEN [threw |-> FALSE, tool |-> t]
    ELSE IF ~t.arc.path THEN [threw |-> TRUE, tool |-> t]
    ELSE [threw |-> FALSE, tool |-> mousemoveRadius(t, x)]

\* an ArcTool.mousedown that starts over in the second phase as well
ArcToolMousedownAlways(t, x) ==
    mousemoveRadius([t EXCEPT !.arc.origin = x, !.arc.radius = 0, !.arc.path = TRUE,
                              !.arc.drawEnd = FALSE], x)

\* ArcTool.mousedown: ignored in the second phase; else the origin, a
\* radius of 0, the helper path, and this.mousemove(e)
ArcToolMousedown(t, x) ==
    IF t.arc.drawEnd THEN t
    ELSE mousemoveRadius([t EXCEPT !.arc.origin = x, !.arc.radius = 0,
                                   !.arc.path = TRUE], x)

\* ArcTool.mouseup: in the second phase BaseEdit.mouseup and, when that
\* returned, the helper path removed; in the first phase nothing is saved
\* (this._path.attr("d") is a TypeError before the tool's first mousedown)
ArcToolMouseup(t) ==
    IF t.arc.drawEnd
    THEN LET r == BaseEditMouseup(t)
         IN  IF r.threw THEN r ELSE [r EXCEPT !.tool.arc.path = FALSE]
    ELSE [threw |-> ~t.arc.path, tool |-> t]

\* ------------------------------------------------------ editing contexts
\* the dots on the page, and the names loadContext is called with
PageDots == {"A", "B"}
ContextNames == {"default", "continuity"}
Closures == 1..MaxLoads

\* an event that no handler has been run for yet
NoEvent == [type |-> "none", ran |-> 0, stateBefore |-> "none",
            selectedBefore |-> {}, movedBefore |-> {}, dispatchedBefore |-> 0,
            onDot |-> FALSE]

\* the controller before init(): no context; no DefaultContext.load has run,
\* so no closure holds a drag state yet and no handler is registered
NoContext ==
    [current |-> "none", id |-> 0, workspace |-> <<>>, document |-> <<>>,
     dragState |-> [i \in Closures |-> "none"],
     selected |-> {}, moved |-> {}, dispatched |-> 0, startedOnDot |-> FALSE,
     last |-> NoEvent]

\* BaseContext.prototype.addEvents: $(".workspace").on(events), for the
\* handlers of the closure of load number id
addEvents(c, id) == [c EXCEPT !.workspace = Append(@, id)]

\* BaseContext.prototype.addGlobalEvents: $(document).on(events)
addGlobalEvents(c, id) == [c EXCEPT !.document = Append(@, id)]

\* a removeEvents that takes the namespace off the workspace as well
removeEventsEverywhere(c) == [c EXCEPT !.document = <<>>, !.workspace = <<>>]

\* BaseContext.prototype.removeEvents: $(document).off(".app-context")
removeEvents(c) == [c EXCEPT !.document = <<>>]

\* DefaultContext.prototype.load: a new closure with dragState "none", its
\* handlers added to the workspace and to the document
DefaultContextLoad(c) ==
    LET id == c.id + 1
    IN  addGlobalEvents(addEvents([c EXCEPT !.id = id, !.dragState[id] = "none"], id), id)

\* DefaultContext.prototype.unload and ContinuityContext.prototype.unload
unload(c) == IF c.current = "default" THEN removeEvents(c) ELSE c

\* EditorController.prototype.loadContext(name)
loadContext(c, name) ==
    LET unloaded == IF c.current # "none" THEN unload(c) ELSE c
        named == [unloaded EXCEPT !.current = name]
    IN  IF name = "default" THEN DefaultContextLoad(named) ELSE named

\* the mousedown handler of closure id: target is a dot's marker or the
\* field, modifier is e.shiftKey || e.ctrlKey || e.metaKey
mousedown(c, id, target, modifier) ==
    IF target \in PageDots
    THEN [c EXCEPT !.selected = IF modifier
                                 THEN (@ \ {target}) \cup ({target} \ @)
                                 ELSE {target},
                   !.dragState[id] = "drag"]
    ELSE [c EXCEPT !.selected = {}, !.dragState[id] = "select"]

\* the mousemove handler of closure id: moves says whether the pointer is
\* off the place of the mousedown by a grid step or more, inBox are the dots
\* inside the selection box
mousemove(c, id, moves, inBox) ==
    CASE c.dragState[id] = "none" -> c
      [] c.dragState[id] = "drag" ->
            [c EXCEPT !.moved = (@ \ c.selected) \cup (IF moves THEN c.selected ELSE {})]
      [] OTHER -> [c EXCEPT !.selected = inBox]

\* a mouseup handler that saves the positions after a selection box as well
mouseupSavesAlways(c, id) ==
    LET hasMoved == c.selected \cap c.moved # {}
        saved == IF c.dragState[id] # "none" /\ hasMoved
                 THEN [c EXCEPT !.dispatched = @ + 1, !.moved = @ \ c.selected]
                 ELSE c
    IN  [saved EXCEPT !.dragState[id] = "none"]

\* the mouseup handler of closure id
mouseup(c, id) ==
    LET hasMoved == c.selected \cap c.moved # {}
        saved == IF c.dragState[id] = "drag" /\ hasMoved
                 THEN [c EXCEPT !.dispatched = @ + 1, !.moved = @ \ c.selected]
                 ELSE c
    IN  [saved EXCEPT !.dragState[id] = "none"]

\* ------------------------------------------------- GateReferenceContext
\* the dot types of the sheet and the points a click may give
GateTypes == {"plain", "solid"}
GatePoints == {Coordinate(x, y) : x, y \in 0..1}

\* no undo function returned
NoUndo == [has |-> FALSE, old |-> Coordinate(0, 0)]

\* a GateTurnContinuity of a dot type with a reference point, on a sheet
\* that has recomputed no movements yet; updates counts the calls of
\* sheet.updateMovements(dotType) per dot type
GateCreated(dotType, reference) ==
    [dotType |-> dotType, reference |-> reference,
     updates |-> [t \in GateTypes |-> 0], returned |-> NoUndo,
     last |-> [op |-> "none", point |-> reference, before |-> reference,
               updatesBefore |-> [t \in GateTypes |-> 0]]]

NoGate == GateCreated("plain", Coordinate(0, 0))

\* continuity.setReference(point) and sheet.updateMovements(dotType)
continuitySetReference(g, point) == [g EXCEPT !.reference = point]
gateUpdateMovements(g, dotType) == [g EXCEPT !.updates[dotType] = @ + 1]

\* a setReference whose undo function puts back the point just set
setReferenceReadsOldLate(g, point) ==
    LET set == gateUpdateMovements(continuitySetReference(g, point), g.dotType)
    IN  [set EXCEPT !.returned = [has |-> TRUE, old |-> set.reference]]

\* ContextActions.setReference(point, continuity): the continuity after it,
\* with the undo function it returned (a closure over `old`)
setReference(g, point) ==
    LET old == g.reference
        set == gateUpdateMovements(continuitySetReference(g, point), g.dotType)
    IN  [set EXCEPT !.returned = [has |-> TRUE, old |-> old]]

\* the undo function returned by setReference
setReferenceUndo(g) ==
    gateUpdateMovements(continuitySetReference(g, g.returned.old), g.dotType)

\* the page before any popup, tool or context is loaded
UiCreated ==
    /\ popup = NoPopup
    /\ tool = NoTool
    /\ ctx = NoContext
    /\ gate = NoGate

\* no continuity given
NoArg == [kind |-> "none", beats |-> 0]

\* the last mutation: none made yet
NoMutation == [op |-> "none", pc |-> "none", updated |-> FALSE, value |-> "undefined",
               listBefore |-> <<>>, dotsBefore |-> SheetCreateDots(Labels),
               arg |-> NoArg, delta |-> 0]

\* a call of a mutating method: whether it returned or threw, whether it ran
\* sheet.updateMovements, what it returned or threw, the list and the dots
\* before it, and its arguments
Mutation(op, pc, updated, value, listBefore, dotsBefore, arg, delta) ==
    [op |-> op, pc |-> pc, updated |-> updated, value |-> value,
     listBefore |-> listBefore, dotsBefore |-> dotsBefore, arg |-> arg, delta |-> delta]

\* --------------------------------------------------- two-step resolution
Orders == {o \in SeqsUpTo(Labels, NumDots) : NoRepeat(o)}

TwoSteps == [order : Orders, continuities : SeqsUpTo(Nested, MaxNested),
             isMarktime : BOOLEAN]

NoCall == [pc |-> "none", dot |-> "A", entry |-> Cursor(Coordinate(0, 0), 0),
           err |-> FALSE, data |-> Cursor(Coordinate(0, 0), 0), moves |-> <<>>,
           calls |-> <<>>, parts |-> <<>>]

Record(dot, data, r) ==
    [pc |-> IF r.err THEN "threw" ELSE "returned", dot |-> dot,
     entry |-> data, err |-> r.err, data |-> r.data, moves |-> r.moves,
     calls |-> r.calls, parts |-> r.parts]

NoQuery == [op |-> "none", dot |-> "A", beatNum |-> 0, withSheet |-> FALSE,
            pc |-> "none", error |-> NoError, index |-> 0, offset |-> 0, state |-> NoState,
            info |-> Undefined]

Query(op, label, beatNum, withSheet, r, info) ==
    [op |-> op, dot |-> label, beatNum |-> beatNum, withSheet |-> withSheet,
     pc |-> r.pc, error |-> r.error, index |-> r.index, offset |-> r.offset,
     state |-> r.state, info |-> info]

\* the calls made so far, while they are n edits, then undos, then redos:
\* the sheet's dots before and after the last edit, and the three counts
NoRun == [on |-> TRUE, edits |-> 0, undos |-> 0, redos |-> 0, lastEdit |-> "",
          before |-> SheetCreateDots(Labels), after |-> SheetCreateDots(Labels)]

OffRun == [NoRun EXCEPT !.on = FALSE]

NoDo == [pc |-> "none", name |-> "", asRedo |-> FALSE, undoBefore |-> <<>>,
         redoBefore |-> <<>>, contentBefore |-> Coordinate(0, 0), run |-> NoRun]

\* new EditorController(show): both histories empty
EditorCreated ==
    /\ undoHistory = <<>>
    /\ redoHistory = <<>>
    /\ content = Coordinate(0, 0)
    /\ did = NoDo

\* the sheet Sheet.create(show, n, labels) returns, with no dot loaded
SheetCreated(n) ==
    /\ numBeats = n
    /\ dots = SheetCreateDots(Labels)
    /\ continuities = <<>>
    /\ loaded = {}
    /\ q = NoQuery

InitTwoStep ==
    /\ two \in TwoSteps
    /\ gm = NoCall
    /\ SheetCreated(1)
    /\ EditorCreated
    /\ mut = NoMutation
    /\ UiCreated
    /\ StoreCreated

\* a caller resolves the two-step continuity for a dot with a cursor
GetMovements(dot, data) ==
    /\ gm.pc = "none"
    /\ gm' = Record(dot, data, TwoStepGetMovements(two, dot, data))
    /\ UNCHANGED two
    /\ UNCHANGED sheetVars
    /\ UNCHANGED editorVars
    /\ UNCHANGED <<mut, storeVars, uiVars>>

NextTwoStep ==
    \E dot \in Labels, position \in Positions, remaining \in 0..MaxBeats :
        GetMovements(dot, Cursor(position, remaining))

SpecTwoStep == InitTwoStep /\ [][NextTwoStep]_vars

\* ------------------------------------------------------------------ Sheet
\* Sheet.prototype.addContinuity(dotType, continuity): push
addContinuity(list, continuity) == Append(list, continuity)

\* Array.prototype.splice(index, 1) of removeContinuity; a negative index
\* counts from the end of the array
splice1(list, index) ==
    LET at == IF index < 0 THEN Len(list) + index + 1 ELSE index + 1
    IN  IF at < 1 \/ at > Len(list) THEN list
        ELSE SubSeq(list, 1, at - 1) \o SubSeq(list, at + 1, Len(list))

\* Sheet.prototype.removeContinuity(dotType, continuity)
removeContinuity(list, continuity) == splice1(list, indexOf(list, continuity))

\* Sheet.prototype.updatePosition(dot, x, y): the dot's coordinate, in place
updatePosition(sheetDots, label, x, y) ==
    [sheetDots EXCEPT ![label].position = Coordinate(x, y)]

Init ==
    /\ \E n \in 1..MaxBeats : SheetCreated(n)
    /\ two = [order |-> <<>>, continuities |-> <<>>, isMarktime |-> TRUE]
    /\ gm = NoCall
    /\ EditorCreated
    /\ mut = NoMutation
    /\ UiCreated
    /\ StoreCreated

\* the edits stop once a query has been recorded
Editing == q.pc = "none"

SheetAddContinuity(continuity) ==
    /\ Editing
    /\ Len(continuities) < MaxConts
    /\ continuities' = addContinuity(continuities, continuity)
    /\ mut' = Mutation("Sheet.addContinuity", "returned", FALSE, "undefined",
                        continuities, dots, continuity, 0)
    /\ UNCHANGED <<numBeats, dots, loaded, q>>
    /\ UNCHANGED <<twoStepVars, editorVars>>
    /\ UNCHANGED <<storeVars, uiVars>>

SheetRemoveContinuity(continuity) ==
    /\ Editing
    /\ continuities' = removeContinuity(continuities, continuity)
    /\ mut' = Mutation("Sheet.removeContinuity", "returned", FALSE, "undefined",
                        continuities, dots, continuity, 0)
    /\ UNCHANGED <<numBeats, dots, loaded, q>>
    /\ UNCHANGED <<twoStepVars, editorVars>>
    /\ UNCHANGED <<storeVars, uiVars>>

SheetUpdatePosition(label, position) ==
    /\ Editing
    /\ dots' = updatePosition(dots, label, position.x, position.y)
    /\ mut' = Mutation("Sheet.updatePosition", "returned", FALSE, "undefined",
                        continuities, dots, NoArg, 0)
    /\ UNCHANGED <<numBeats, continuities, loaded, q>>
    /\ UNCHANGED <<twoStepVars, editorVars>>
    /\ UNCHANGED <<storeVars, uiVars>>

\* Dot.prototype.loadSheet(sheet): this._sheetInfo = sheet.getInfoForDot(this._label)
DotLoadSheet(label) ==
    /\ Editing
    /\ loaded' = loaded \cup {label}
    /\ UNCHANGED <<numBeats, dots, continuities, q>>
    /\ UNCHANGED <<twoStepVars, editorVars>>
    /\ UNCHANGED <<mut, storeVars, uiVars>>

DotGetSheetInfo(label, withSheet) ==
    /\ Editing
    /\ LET r == getSheetInfo(dots, label, label \in loaded, withSheet)
       IN  q' = Query("getSheetInfo", label, 0, withSheet,
                      IF r.pc = "threw" THEN Threw(NoSheetError)
                      ELSE [Threw(NoError) EXCEPT !.pc = "returned"],
                      r.value)
    /\ UNCHANGED <<numBeats, dots, continuities, loaded>>
    /\ UNCHANGED <<twoStepVars, editorVars>>
    /\ UNCHANGED <<mut, storeVars, uiVars>>

DotGetAnimationState(label, beatNum, withSheet) ==
    /\ Editing
    /\ q' = Query("getAnimationState", label, beatNum, withSheet,
                  getAnimationState(dots, label, label \in loaded, beatNum, withSheet),
                  Undefined)
    /\ UNCHANGED <<numBeats, dots, continuities, loaded>>
    /\ UNCHANGED <<twoStepVars, editorVars>>
    /\ UNCHANGED <<mut, storeVars, uiVars>>

DotGetFirstPosition(label, withSheet) ==
    /\ Editing
    /\ q' = Query("getFirstPosition", label, 0, withSheet,
                  getFirstPosition(dots, label, label \in loaded, withSheet), Undefined)
    /\ UNCHANGED <<numBeats, dots, continuities, loaded>>
    /\ UNCHANGED <<twoStepVars, editorVars>>
    /\ UNCHANGED <<mut, storeVars, uiVars>>

DotGetLastPosition(label, withSheet) ==
    /\ Editing
    /\ q' = Query("getLastPosition", label, 0, withSheet,
                  getLastPosition(dots, label, label \in loaded, withSheet), Undefined)
    /\ UNCHANGED <<numBeats, dots, continuities, loaded>>
    /\ UNCHANGED <<twoStepVars, editorVars>>
    /\ UNCHANGED <<mut, storeVars, uiVars>>

Next ==
    \/ \E continuity \in Nested : SheetAddContinuity(continuity)
    \/ \E continuity \in Nested : SheetRemoveContinuity(continuity)
    \/ \E label \in Labels, position \in Positions : SheetUpdatePosition(label, position)
    \/ \E label \in Labels : DotLoadSheet(label)
    \/ \E label \in Labels, withSheet \in BOOLEAN : DotGetSheetInfo(label, withSheet)
    \/ \E label \in Labels, withSheet \in BOOLEAN :
          \E beatNum \in {0, numBeats} : DotGetAnimationState(label, beatNum, withSheet)
    \/ \E label \in Labels, withSheet \in BOOLEAN : DotGetFirstPosition(label, withSheet)
    \/ \E label \in Labels, withSheet \in BOOLEAN : DotGetLastPosition(label, withSheet)

Spec == Init /\ [][Next]_vars

\* --------------------------------------------------------- the Dot's query
\* the movement lists a dot may hold: stops and moves chained from a position
CommandKinds == [type : {"stop"}, duration : 0..MaxDur] \cup [type : {"move"}, duration : 1..MaxDur]

RECURSIVE Chain(_, _)
Chain(kinds, position) ==
    IF kinds = <<>> THEN <<>>
    ELSE LET movement == IF Head(kinds).type = "stop"
                         THEN MovementCommandStop(position.x, position.y, Head(kinds).duration, TRUE)
                         ELSE MovementCommandMove(position.x, position.y, Head(kinds).duration)
         IN  <<movement>> \o Chain(Tail(kinds), getEndPosition(movement))

\* a sheet whose dot "A" holds a drawn movement list, loaded into every dot
InitDot ==
    /\ \E kinds \in SeqsUpTo(CommandKinds, MaxCmds) :
          LET movements == Chain(kinds, Coordinate(0, 0))
          IN  /\ dots = [SheetCreateDots(Labels) EXCEPT !["A"].movements = movements]
              /\ numBeats = IF SumDurations(movements) = 0 THEN 1 ELSE SumDurations(movements)
    /\ continuities = <<>>
    /\ loaded = Labels
    /\ q = NoQuery
    /\ two = [order |-> <<>>, continuities |-> <<>>, isMarktime |-> TRUE]
    /\ gm = NoCall
    /\ EditorCreated
    /\ mut = NoMutation
    /\ UiCreated
    /\ StoreCreated

NextDot ==
    \E label \in Labels :
        \E beatNum \in 0..(SumDurations(dots[label].movements) + 2) :
            DotGetAnimationState(label, beatNum, FALSE)

SpecDot == InitDot /\ [][NextDot]_vars

\* ------------------------------------------------- Sheet serialization
\* the fields of a Sheet made with no options
SheetObject(n, sheetDots, list) ==
    [numBeats |-> n, label |-> "null", fieldType |-> "null", dots |-> sheetDots,
     continuities |-> list]

\* coordinate.serialize() and Coordinate.deserialize(data)
CoordinateSerialize(coordinate) == <<coordinate.x, coordinate.y>>
CoordinateDeserialize(data) == Coordinate(data[1], data[2])

\* movement.serialize()
MovementSerialize(movement) ==
    [type |-> movement.type, start |-> CoordinateSerialize(movement.start),
     end |-> CoordinateSerialize(movement.end), duration |-> movement.duration,
     marktime |-> movement.marktime]

\* continuity.serialize() and Continuity.deserialize(data)
ContinuitySerialize(continuity) == [type |-> continuity.kind, beats |-> continuity.beats]
ContinuityDeserialize(data) == [kind |-> data.type, beats |-> data.beats]

\* Sheet.prototype.serialize
SheetSerialize(sheet) ==
    [numBeats |-> sheet.numBeats,
     options |-> [label |-> sheet.label, fieldType |-> sheet.fieldType],
     dots |-> [label \in DOMAIN sheet.dots |->
                 [type |-> sheet.dots[label].type,
                  position |-> CoordinateSerialize(sheet.dots[label].position),
                  movements |-> [i \in 1..Len(sheet.dots[label].movements) |->
                                   MovementSerialize(sheet.dots[label].movements[i])]]],
     continuities |-> [i \in 1..Len(sheet.continuities) |->
                         ContinuitySerialize(sheet.continuities[i])]]

\* Sheet.deserialize(show, data): the callback of movements.map is a switch
\* with no case, so it returns undefined for every movement
SheetDeserialize(data) ==
    [numBeats |-> data.numBeats,
     label |-> data.options.label,
     fieldType |-> data.options.fieldType,
     dots |-> [label \in DOMAIN data.dots |->
                 [type |-> data.dots[label].type,
                  position |-> CoordinateDeserialize(data.dots[label].position),
                  movements |-> [i \in 1..Len(data.dots[label].movements) |-> Undefined]]],
     continuities |-> [i \in 1..Len(data.continuities) |->
                         ContinuityDeserialize(data.continuities[i])]]

\* a caller runs Sheet.deserialize(show, sheet.serialize())
SheetRoundTrip ==
    /\ Editing
    /\ q' = Query("Sheet.deserialize", "A", 0, FALSE, [Threw(NoError) EXCEPT !.pc = "returned"],
                  SheetDeserialize(SheetSerialize(SheetObject(numBeats, dots, continuities))))
    /\ UNCHANGED <<numBeats, dots, continuities, loaded>>
    /\ UNCHANGED <<twoStepVars, editorVars>>
    /\ UNCHANGED <<mut, storeVars, uiVars>>

NextSerialize == SheetRoundTrip

SpecSerialize == InitDot /\ [][NextSerialize]_vars

\* ------------------------------------------- the two-step's nested list
\* the sheet's recomputation for one dot: the two-step resolved from the
\* dot's position with all the sheet's beats, then the stop for the beats left
ResolveDot(twoStep, label, position, n) ==
    LET r == TwoStepGetMovements(twoStep, label, Cursor(position, n))
        total == SumDurations(r.moves)
        last == IF r.moves = <<>> THEN position ELSE getEndPosition(r.moves[Len(r.moves)])
    IN  IF r.err \/ total > n THEN [err |-> TRUE, moves |-> <<>>]
        ELSE [err |-> FALSE,
              moves |-> IF total < n
                        THEN r.moves \o <<MovementCommandStop(last.x, last.y, n - total, TRUE)>>
                        ELSE r.moves]

\* sheet.updateMovements(dotType): the movements of every dot of the type,
\* or the validation error with the movements as they were
updateMovements(sheetDots, n, twoStep) ==
    LET r == [label \in DOMAIN sheetDots |->
                 ResolveDot(twoStep, label, sheetDots[label].position, n)]
    IN  IF \E label \in DOMAIN sheetDots : r[label].err
        THEN [err |-> TRUE, dots |-> sheetDots]
        ELSE [err |-> FALSE,
              dots |-> [label \in DOMAIN sheetDots |->
                          [sheetDots[label] EXCEPT !.movements = r[label].moves]]]

\* what a method that changed the list to `list` and then ran
\* sheet.updateMovements leaves: the list, the dots, what it returned or threw
ThenUpdate(twoStep, list, sheetDots, n, value) ==
    LET changed == [twoStep EXCEPT !.continuities = list]
        r == updateMovements(sheetDots, n, changed)
    IN  [two |-> changed, dots |-> r.dots, updated |-> TRUE,
         pc |-> IF r.err THEN "threw" ELSE "returned",
         value |-> IF r.err THEN "ValidationError" ELSE value]

\* an addContinuity that drops the cached movements when the recomputation fails
twoStepAddContinuityInvalidates(twoStep, sheetDots, n, continuity) ==
    LET r == ThenUpdate(twoStep, Append(twoStep.continuities, continuity), sheetDots, n, "undefined")
    IN  IF r.pc = "threw"
        THEN [r EXCEPT !.dots = [label \in DOMAIN sheetDots |->
                                   [sheetDots[label] EXCEPT !.movements = <<>>]]]
        ELSE r

\* TwoStepContinuity.prototype.addContinuity(continuity)
twoStepAddContinuity(twoStep, sheetDots, n, continuity) ==
    ThenUpdate(twoStep, Append(twoStep.continuities, continuity), sheetDots, n, "undefined")

\* _.pull(array, value): every element equal to the value removed
pull(list, continuity) == SelectSeq(list, LAMBDA c : c # continuity)

\* TwoStepContinuity.prototype.removeContinuity(continuity)
twoStepRemoveContinuity(twoStep, sheetDots, n, continuity) ==
    ThenUpdate(twoStep, pull(twoStep.continuities, continuity), sheetDots, n, "undefined")

\* Array.prototype.splice(at, 0, elem): at counts from 0 and stops at the end
insertAt(list, at, elem) ==
    LET k == IF at > Len(list) THEN Len(list) ELSE at
    IN  SubSeq(list, 1, k) \o <<elem>> \o SubSeq(list, k + 1, Len(list))

\* moveElem(array, from, to): the element at from taken out and put in at to
moveElem(list, from, to) ==
    IF list = <<>> THEN list
    ELSE LET elem == list[IF from < 0 THEN Len(list) + from + 1 ELSE from + 1]
         IN  insertAt(splice1(list, from), to, elem)

\* what the free identifier `continuities` of moveContinuity may be: bound to
\* nothing (reading it throws a ReferenceError), or to a global object that
\* has no length (the comparison with its length is false)
Globals == {"unbound", "noLength"}

\* TwoStepContinuity.prototype.moveContinuity(continuity, delta)
twoStepMoveContinuity(twoStep, sheetDots, n, continuity, delta, global) ==
    LET index == indexOf(twoStep.continuities, continuity)
        newIndex == index + delta
        same(pc, value) == [two |-> twoStep, dots |-> sheetDots, updated |-> FALSE,
                            pc |-> pc, value |-> value]
    IN  IF newIndex < 0 THEN same("returned", "false")
        ELSE IF global = "unbound" THEN same("threw", "ReferenceError")
        ELSE ThenUpdate(twoStep, moveElem(twoStep.continuities, index, newIndex),
                        sheetDots, n, "true")

\* the dots of the two-step's dot type, in the order of their labels
LabelOrder == [i \in 1..NumDots |-> LabelNames[i]]

\* a sheet of any beat count with a two-step of no continuities for all its
\* dots, its movements computed when they could be
InitMutate ==
    /\ two = [order |-> LabelOrder, continuities |-> <<>>, isMarktime |-> TRUE]
    /\ gm = NoCall
    /\ \E n \in 1..MaxBeats :
          /\ numBeats = n
          /\ dots = updateMovements(SheetCreateDots(Labels), n, two).dots
    /\ continuities = <<>>
    /\ loaded = {}
    /\ q = NoQuery
    /\ EditorCreated
    /\ mut = NoMutation
    /\ UiCreated
    /\ StoreCreated

Mutate(op, r, continuity, delta) ==
    /\ two' = r.two
    /\ dots' = r.dots
    /\ mut' = Mutation(op, r.pc, r.updated, r.value, two.continuities, dots, continuity, delta)

TwoStepAddContinuity(continuity) ==
    /\ Len(two.continuities) < MaxNested
    /\ Mutate("TwoStep.addContinuity", twoStepAddContinuity(two, dots, numBeats, continuity),
              continuity, 0)
    /\ UNCHANGED <<gm, numBeats, continuities, loaded, q>>
    /\ UNCHANGED <<editorVars, storeVars, uiVars>>

TwoStepRemoveContinuity(continuity) ==
    /\ Mutate("TwoStep.removeContinuity", twoStepRemoveContinuity(two, dots, numBeats, continuity),
              continuity, 0)
    /\ UNCHANGED <<gm, numBeats, continuities, loaded, q>>
    /\ UNCHANGED <<editorVars, storeVars, uiVars>>

TwoStepMoveContinuity(continuity, delta, global) ==
    /\ Mutate("TwoStep.moveContinuity",
              twoStepMoveContinuity(two, dots, numBeats, continuity, delta, global),
              continuity, delta)
    /\ UNCHANGED <<gm, numBeats, continuities, loaded, q>>
    /\ UNCHANGED <<editorVars, storeVars, uiVars>>

NextMutate ==
    \/ \E continuity \in Nested : TwoStepAddContinuity(continuity)
    \/ \E continuity \in Nested : TwoStepRemoveContinuity(continuity)
    \/ \E continuity \in Nested, delta \in {-1, 1}, global \in Globals :
          TwoStepMoveContinuity(continuity, delta, global)

SpecMutate == InitMutate /\ [][NextMutate]_vars

\* -------------------------------------------------------- EditorController
\* the methods of the controller that do() may be asked to run
ActionNames == {"addStuntsheet", "saveSelectionPositions", "deselectDots", "undo"}

\* action._canUndo
canUndo(name) == name \in {"addStuntsheet", "saveSelectionPositions"}

\* action._clearsRedo: no action of the controller sets it
clearsRedo(name) == "undefined"

\* action._name || JSUtils.fromCamelCase(name)
actionLabel(name) ==
    IF name = "saveSelectionPositions" THEN "Move dots" ELSE "Add Stuntsheet"

Controller(undo, redo, shown, sheetDots) ==
    [undo |-> undo, redo |-> redo, content |-> shown, dots |-> sheetDots]

\* if (action._canUndo) this._undoHistory.push({label, content})
pushUndo(c, name) ==
    IF canUndo(name)
    THEN [c EXCEPT !.undo = Append(@, [label |-> actionLabel(name), content |-> c.content])]
    ELSE c

\* a do() that empties the redo history on a redo as well
emptyRedoAlways(c, name, asRedo) ==
    IF clearsRedo(name) = "true" \/ (clearsRedo(name) = "undefined" /\ canUndo(name))
    THEN [c EXCEPT !.redo = <<>>]
    ELSE c

\* if (!asRedo && (action._clearsRedo || ...)) JSUtils.empty(this._redoHistory)
emptyRedo(c, name, asRedo) ==
    IF ~asRedo /\ (clearsRedo(name) = "true"
                   \/ (clearsRedo(name) = "undefined" /\ canUndo(name)))
    THEN [c EXCEPT !.redo = <<>>]
    ELSE c

\* the dot the selection holds
SelectedDot == "A"

\* EditorController.prototype.saveSelectionPositions: the sheet takes the
\* shown position of every selected dot
saveSelectionPositions(c) ==
    [c EXCEPT !.dots = updatePosition(@, SelectedDot, c.content.x, c.content.y)]

\* EditorController.prototype.undo
undo(c) ==
    IF Len(c.undo) = 0 THEN c
    ELSE [c EXCEPT !.undo = SubSeq(@, 1, Len(@) - 1), !.content = c.undo[Len(c.undo)].content]

\* action.call(this)
callAction(c, name) ==
    CASE name = "saveSelectionPositions" -> saveSelectionPositions(c)
      [] name = "undo" -> undo(c)
      [] OTHER -> c

\* EditorController.prototype.do(name, asRedo), for a name the controller has
do(c, name, asRedo) == callAction(emptyRedo(pushUndo(c, name), name, asRedo), name)

Current == Controller(undoHistory, redoHistory, content, dots)

Become(c) ==
    /\ undoHistory' = c.undo
    /\ redoHistory' = c.redo
    /\ content' = c.content
    /\ dots' = c.dots

\* the run of calls, one call later: kind is "edit" for do() of an undoable
\* action, "undo" and "redo" for the two methods, "other" for the rest
Track(run, kind, name, dotsBefore, dotsAfter) ==
    CASE kind = "edit" ->
            IF run.on /\ run.undos = 0 /\ run.redos = 0
            THEN [run EXCEPT !.edits = @ + 1, !.lastEdit = name,
                             !.before = dotsBefore, !.after = dotsAfter]
            ELSE OffRun
      [] kind = "undo" ->
            IF run.on /\ run.redos = 0 /\ run.undos < run.edits
            THEN [run EXCEPT !.undos = @ + 1]
            ELSE OffRun
      [] kind = "redo" ->
            IF run.on /\ run.undos = run.edits /\ run.redos < run.edits
            THEN [run EXCEPT !.redos = @ + 1]
            ELSE OffRun
      [] OTHER -> run

\* what a call of do(name, asRedo) is in the run of calls
KindOf(name, asRedo) ==
    CASE name = "undo" -> "undo"
      [] canUndo(name) /\ ~asRedo -> "edit"
      [] canUndo(name) /\ asRedo -> "redone"
      [] OTHER -> "other"

Entry(pc, c, name, asRedo, kind, after) ==
    [pc |-> pc, name |-> name, asRedo |-> asRedo, undoBefore |-> c.undo,
     redoBefore |-> c.redo, contentBefore |-> c.content,
     run |-> Track(did.run, kind, name, c.dots, after.dots)]

\* the controller with any names of undoable actions on its redo history,
\* in the middle of its calls
InitDo ==
    /\ SheetCreated(1)
    /\ two = [order |-> <<>>, continuities |-> <<>>, isMarktime |-> TRUE]
    /\ gm = NoCall
    /\ undoHistory = <<>>
    /\ redoHistory \in SeqsUpTo({name \in ActionNames : canUndo(name)}, MaxHist)
    /\ content = Coordinate(0, 0)
    /\ did = [NoDo EXCEPT !.run = OffRun]
    /\ mut = NoMutation
    /\ UiCreated
    /\ StoreCreated

\* EditorController.prototype.addStuntsheet, the action that do() calls for
\* that name: it shows the popup and returns
addStuntsheet(p, name) == IF name = "addStuntsheet" THEN showPopup(p) ELSE p

\* a caller runs do(name, asRedo)
Do(name, asRedo) ==
    /\ canUndo(name) => Len(undoHistory) < MaxHist
    /\ Become(do(Current, name, asRedo))
    /\ popup' = addStuntsheet(popup, name)
    /\ did' = Entry("done", Current, name, asRedo, KindOf(name, asRedo),
                    do(Current, name, asRedo))
    /\ UNCHANGED <<numBeats, continuities, loaded, q>>
    /\ UNCHANGED twoStepVars
    /\ UNCHANGED <<mut, storeVars, tool, ctx, gate>>

\* do() of a name the controller has no method for: throws
DoUnknown(asRedo) ==
    /\ did' = Entry("threw", Current, "noSuchAction", asRedo, "other", Current)
    /\ UNCHANGED <<undoHistory, redoHistory, content>>
    /\ UNCHANGED <<sheetVars, twoStepVars>>
    /\ UNCHANGED <<mut, storeVars, uiVars>>

\* EditorController.prototype.redo: pops a name and runs do(name, true)
Redo ==
    /\ Len(redoHistory) > 0 => Len(undoHistory) < MaxHist
    /\ IF Len(redoHistory) = 0
       THEN /\ UNCHANGED <<undoHistory, redoHistory, content, dots, popup>>
            /\ did' = Entry("returned", Current, "redo", FALSE, "redo", Current)
       ELSE LET popped == [Current EXCEPT !.redo = SubSeq(@, 1, Len(@) - 1)]
                name == redoHistory[Len(redoHistory)]
            IN  /\ Become(do(popped, name, TRUE))
                /\ popup' = addStuntsheet(popup, name)
                /\ did' = Entry("done", popped, name, TRUE, "redo", do(popped, name, TRUE))
    /\ UNCHANGED <<numBeats, continuities, loaded, q>>
    /\ UNCHANGED twoStepVars
    /\ UNCHANGED <<mut, storeVars, tool, ctx, gate>>

\* EditorController.prototype.moveSelection: the page shows the selection elsewhere
MoveSelection(position) ==
    /\ content' = position
    /\ did' = Entry("returned", Current, "moveSelection", FALSE, "other", Current)
    /\ UNCHANGED <<undoHistory, redoHistory>>
    /\ UNCHANGED <<sheetVars, twoStepVars>>
    /\ UNCHANGED <<mut, storeVars, uiVars>>

\* a caller runs undo()
Undo ==
    /\ Become(undo(Current))
    /\ did' = Entry("returned", Current, "undo", FALSE, "undo", undo(Current))
    /\ UNCHANGED <<numBeats, continuities, loaded, q>>
    /\ UNCHANGED twoStepVars
    /\ UNCHANGED <<mut, storeVars, uiVars>>

NextDo ==
    \/ \E name \in ActionNames, asRedo \in BOOLEAN : Do(name, asRedo)
    \/ \E asRedo \in BOOLEAN : DoUnknown(asRedo)
    \/ Redo
    \/ \E position \in Positions : MoveSelection(position)

SpecDo == InitDo /\ [][NextDo]_vars

\* the controller as its constructor leaves it, and every call on it
InitEditor ==
    /\ SheetCreated(1)
    /\ two = [order |-> <<>>, continuities |-> <<>>, isMarktime |-> TRUE]
    /\ gm = NoCall
    /\ EditorCreated
    /\ mut = NoMutation
    /\ UiCreated
    /\ StoreCreated

\* the user submits the add-stuntsheet popup with a number of beats typed
PopupSubmit(num_beats) ==
    /\ popup.shown
    /\ popup.sheets < MaxHist
    /\ popup' = onSubmit(popup, num_beats)
    /\ UNCHANGED <<twoStepVars, sheetVars, editorVars>>
    /\ UNCHANGED <<mut, storeVars, tool, ctx, gate>>

\* the user cancels the add-stuntsheet popup
PopupCancel ==
    /\ popup.shown
    /\ popup' = hidePopup(popup)
    /\ UNCHANGED <<twoStepVars, sheetVars, editorVars>>
    /\ UNCHANGED <<mut, storeVars, tool, ctx, gate>>

NextEditor ==
    \/ \E name \in ActionNames : Do(name, FALSE)
    \/ Redo
    \/ Undo
    \/ \E position \in Positions : MoveSelection(position)
    \/ \E num_beats \in NumBeatsInputs : PopupSubmit(num_beats)
    \/ PopupCancel

SpecEditor == InitEditor /\ [][NextEditor]_vars

\* ------------------------------------------------------------ Song calls
InitSong ==
    /\ SheetCreated(1)
    /\ two = [order |-> <<>>, continuities |-> <<>>, isMarktime |-> TRUE]
    /\ gm = NoCall
    /\ EditorCreated
    /\ mut = NoMutation
    /\ UiCreated
    /\ StoreCreated

\* a caller runs song.addSheet(sheet)
SongAddSheet(g, s) ==
    /\ show' = addSheet(show, g, s)
    /\ UNCHANGED <<store, mut, twoStepVars, sheetVars, editorVars, uiVars>>

\* a caller runs song.removeSheet(sheet)
SongRemoveSheet(g, s) ==
    /\ show' = removeSheet(show, g, s)
    /\ UNCHANGED <<store, mut, twoStepVars, sheetVars, editorVars, uiVars>>

NextSong ==
    \/ \E g \in Songs, s \in SheetIds : SongAddSheet(g, s)
    \/ \E g \in Songs, s \in SheetIds : SongRemoveSheet(g, s)

SpecSong == InitSong /\ [][NextSong]_vars

\* ------------------------------------------------ contexts and the mouse
\* every handler registered for an event runs, in the order of registration
RECURSIVE RunMousedown(_, _, _, _)
RunMousedown(c, ids, target, modifier) ==
    IF ids = <<>> THEN c
    ELSE RunMousedown(mousedown(c, Head(ids), target, modifier), Tail(ids), target, modifier)

RECURSIVE RunMousemove(_, _, _, _)
RunMousemove(c, ids, moves, inBox) ==
    IF ids = <<>> THEN c
    ELSE RunMousemove(mousemove(c, Head(ids), moves, inBox), Tail(ids), moves, inBox)

RECURSIVE RunMouseup(_, _)
RunMouseup(c, ids) ==
    IF ids = <<>> THEN c ELSE RunMouseup(mouseup(c, Head(ids)), Tail(ids))

\* the drag state of the loaded context's closure
DragState(c) == IF c.id = 0 THEN "none" ELSE c.dragState[c.id]

\* an event on the page: its type, the handlers it ran, and the context before it
Event(type, ran, onDot) ==
    [type |-> type, ran |-> ran, stateBefore |-> DragState(ctx),
     selectedBefore |-> ctx.selected, movedBefore |-> ctx.moved,
     dispatchedBefore |-> ctx.dispatched, onDot |-> onDot]

InitContext ==
    /\ SheetCreated(1)
    /\ two = [order |-> <<>>, continuities |-> <<>>, isMarktime |-> TRUE]
    /\ gm = NoCall
    /\ EditorCreated
    /\ mut = NoMutation
    /\ UiCreated
    /\ StoreCreated

\* controller.loadContext(name)
LoadContext(name) ==
    /\ name = "default" => ctx.id < MaxLoads
    /\ ctx' = [loadContext(ctx, name) EXCEPT !.last = Event("loadContext", 0, FALSE)]
    /\ UNCHANGED <<twoStepVars, sheetVars, editorVars>>
    /\ UNCHANGED <<mut, storeVars, popup, tool, gate>>

\* the user presses the mouse button in the workspace: a gesture starts
WorkspaceMousedown(target, modifier) ==
    /\ ctx' = [RunMousedown([ctx EXCEPT !.dispatched = 0,
                                        !.startedOnDot = target \in PageDots],
                            ctx.workspace, target, modifier)
                   EXCEPT !.last = Event("mousedown", Len(ctx.workspace), target \in PageDots)]
    /\ UNCHANGED <<twoStepVars, sheetVars, editorVars>>
    /\ UNCHANGED <<mut, storeVars, popup, tool, gate>>

\* the user moves the mouse anywhere on the page
DocumentMousemove(moves, inBox) ==
    /\ ctx' = [RunMousemove(ctx, ctx.document, moves, inBox)
                   EXCEPT !.last = Event("mousemove", Len(ctx.document), FALSE)]
    /\ UNCHANGED <<twoStepVars, sheetVars, editorVars>>
    /\ UNCHANGED <<mut, storeVars, popup, tool, gate>>

\* the user releases the mouse button anywhere on the page
DocumentMouseup ==
    /\ ctx' = [RunMouseup(ctx, ctx.document)
                   EXCEPT !.last = Event("mouseup", Len(ctx.document), FALSE)]
    /\ UNCHANGED <<twoStepVars, sheetVars, editorVars>>
    /\ UNCHANGED <<mut, storeVars, popup, tool, gate>>

NextContext ==
    \/ \E name \in ContextNames : LoadContext(name)
    \/ \E target \in PageDots \cup {"field"}, modifier \in BOOLEAN :
            WorkspaceMousedown(target, modifier)
    \/ \E moves \in BOOLEAN, inBox \in SUBSET PageDots : DocumentMousemove(moves, inBox)
    \/ DocumentMouseup

SpecContext == InitContext /\ [][NextContext]_vars

\* -------------------------------------------------- tools and the mouse
\* tool.mousedown(e), tool.mousemove(e) for the context's tool
ToolMousedownOf(t, x) == IF t.current = "arc" THEN ArcToolMousedown(t, x) ELSE t
ToolMousemoveOf(t, x) ==
    IF t.current = "arc" THEN ArcToolMousemove(t, x) ELSE [threw |-> FALSE, tool |-> t]

\* tool.mouseup(e) for the context's tool
ToolMouseupOf(t) ==
    CASE t.current = "arc" -> ArcToolMouseup(t)
      [] t.current \in BaseEditTools -> BaseEditMouseup(t)
      [] OTHER -> [threw |-> FALSE, tool |-> t]

\* isDone() of the tool that handled the mouseup
ToolIsDoneOf(t, handledBy) ==
    IF handledBy = "arc" THEN ArcToolIsDone(t) ELSE [tool |-> t, value |-> TRUE]

ToolEvent(event, name, pc, done) ==
    [event |-> event, name |-> name, pc |-> pc, isDone |-> done, before |-> ToolView(tool)]

InitTool ==
    /\ SheetCreated(1)
    /\ two = [order |-> <<>>, continuities |-> <<>>, isMarktime |-> TRUE]
    /\ gm = NoCall
    /\ EditorCreated
    /\ mut = NoMutation
    /\ UiCreated
    /\ StoreCreated

\* the user picks a tool in the toolbar: context.loadTool(name)
LoadTool(name) ==
    /\ LET r == loadTool(tool, name)
       IN  tool' = [r.tool EXCEPT !.last = ToolEvent("load", name,
                                      IF r.threw THEN "threw" ELSE "returned", "none")]
    /\ UNCHANGED <<twoStepVars, sheetVars, editorVars>>
    /\ UNCHANGED <<mut, storeVars, popup, ctx, gate>>

\* mousedown in the workspace: the tool's mousedown, and the mousemove and
\* mouseup events are listened for from now on
ToolMousedown(x) ==
    /\ tool.current # "none"
    /\ tool' = [ToolMousedownOf(tool, x) EXCEPT
                    !.listening = TRUE,
                    !.last = ToolEvent("mousedown", "", "returned", "none")]
    /\ UNCHANGED <<twoStepVars, sheetVars, editorVars>>
    /\ UNCHANGED <<mut, storeVars, popup, ctx, gate>>

ToolMousemove(x) ==
    /\ tool.listening
    /\ LET r == ToolMousemoveOf(tool, x)
       IN  tool' = [r.tool EXCEPT !.last = ToolEvent("mousemove", "",
                                      IF r.threw THEN "threw" ELSE "returned", "none")]
    /\ UNCHANGED <<twoStepVars, sheetVars, editorVars>>
    /\ UNCHANGED <<mut, storeVars, popup, ctx, gate>>

\* mouseup: the tool's mouseup and then, unless that threw, its isDone();
\* the events stop being listened for when isDone() returned true
ToolMouseup ==
    /\ tool.listening
    /\ tool.moveDotsTo < MaxSaves
    /\ LET r == ToolMouseupOf(tool)
           done == ToolIsDoneOf(r.tool, tool.current)
       IN  tool' = IF r.threw
                   THEN [r.tool EXCEPT !.last = ToolEvent("mouseup", "", "threw", "none")]
                   ELSE [done.tool EXCEPT
                            !.listening = ~done.value,
                            !.last = ToolEvent("mouseup", "", "returned",
                                               IF done.value THEN "true" ELSE "false")]
    /\ UNCHANGED <<twoStepVars, sheetVars, editorVars>>
    /\ UNCHANGED <<mut, storeVars, popup, ctx, gate>>

NextTool ==
    \/ \E name \in ToolNames \cup {"bogus"} : LoadTool(name)
    \/ \E x \in ToolPoints : ToolMousedown(x)
    \/ \E x \in ToolPoints : ToolMousemove(x)
    \/ ToolMouseup

SpecTool == InitTool /\ [][NextTool]_vars

\* ------------------------------------------------- the gate reference
InitGate ==
    /\ SheetCreated(1)
    /\ two = [order |-> <<>>, continuities |-> <<>>, isMarktime |-> TRUE]
    /\ gm = NoCall
    /\ EditorCreated
    /\ mut = NoMutation
    /\ popup = NoPopup /\ tool = NoTool /\ ctx = NoContext
    /\ \E dotType \in GateTypes, reference \in GatePoints :
           gate = GateCreated(dotType, reference)
    /\ StoreCreated

\* controller.doAction("setReference", [point]) on a click in the workspace
SetReference(point) ==
    /\ gate.updates[gate.dotType] < MaxUpdates
    /\ gate' = [setReference(gate, point) EXCEPT
                    !.last = [op |-> "setReference", point |-> point,
                              before |-> gate.reference, updatesBefore |-> gate.updates]]
    /\ UNCHANGED <<twoStepVars, sheetVars, editorVars>>
    /\ UNCHANGED <<mut, storeVars, popup, tool, ctx>>

\* the undo function of the setReference just made is run
SetReferenceUndo ==
    /\ gate.returned.has
    /\ gate' = [setReferenceUndo(gate) EXCEPT
                    !.returned = NoUndo, !.last.op = "undo"]
    /\ UNCHANGED <<twoStepVars, sheetVars, editorVars>>
    /\ UNCHANGED <<mut, storeVars, popup, tool, ctx>>

NextGate ==
    \/ \E point \in GatePoints : SetReference(point)
    \/ SetReferenceUndo

SpecGate == InitGate /\ [][NextGate]_vars

\* ------------------------------------------------- the store's handlers
Handler(op, pc, func, state, deserialized) ==
    [op |-> op, pc |-> pc, func |-> func, state |-> state, deserialized |-> deserialized,
     showBefore |-> show, historyBefore |-> store.history]

\* the store after actions.reset, for a show with or without formations
\* whose sheets are in no song or one of which has been added to a song
InitStore ==
    /\ SheetCreated(1)
    /\ two = [order |-> <<>>, continuities |-> <<>>, isMarktime |-> TRUE]
    /\ gm = NoCall
    /\ EditorCreated
    /\ mut = NoMutation
    /\ UiCreated
    /\ \E formations \in 0..1 :
           \/ show = ShowCreated(formations)
           \/ \E g \in Songs, s \in SheetIds : show = addSheet(ShowCreated(formations), g, s)
    /\ store = reset(show)

\* dispatch("modifyShow", {target, func, args}) for a song of the show
StoreModifyShow(target, func, arg) ==
    /\ Len(store.history.undo) < MaxStates
    /\ LET r == modifyShow(show, store.history, target, func, arg)
       IN  /\ show' = r.show
           /\ store' = [store EXCEPT !.history = r.history,
                                     !.last = Handler("modifyShow", "returned", func, Undefined, FALSE)]
    /\ UNCHANGED <<mut, twoStepVars, sheetVars, editorVars, uiVars>>

\* dispatch("modifyShow") with a func the target has no method for:
\* target[func] is undefined and .apply throws
StoreModifyUnknown(target) ==
    /\ store' = [store EXCEPT !.last = Handler("modifyShow", "threw", "noSuchFunc", Undefined, FALSE)]
    /\ UNCHANGED <<show, mut, twoStepVars, sheetVars, editorVars, uiVars>>

\* Show.deserialize(state) and commit("setShow", show): the state is the
\* object the History holds, the formation the editor holds stays the object
\* it was
Restore(op, r) ==
    IF r.state = Undefined
    THEN /\ store' = [store EXCEPT !.history = r.history,
                                   !.last = Handler(op, "threw", "", r.state, TRUE)]
         /\ UNCHANGED show
    ELSE /\ show' = ShowDeserialize(r.state)
         /\ store' = [store EXCEPT !.history = withCurrent(r.history, ShowDeserializeData(r.state)),
                                   !.formation = IF @ = "null" THEN "null" ELSE "ofReplacedShow",
                                   !.last = Handler(op, "returned", "", r.state, TRUE)]

\* actions.undo(context)
StoreUndo ==
    /\ Restore("undo", HistoryUndo(store.history))
    /\ UNCHANGED <<mut, twoStepVars, sheetVars, editorVars, uiVars>>

\* actions.redo(context)
StoreRedo ==
    /\ Restore("redo", HistoryRedo(store.history))
    /\ UNCHANGED <<mut, twoStepVars, sheetVars, editorVars, uiVars>>

NextStore ==
    \/ \E target \in Songs, func \in SongFuncs, arg \in SheetIds : StoreModifyShow(target, func, arg)
    \/ \E target \in Songs : StoreModifyUnknown(target)
    \/ StoreUndo
    \/ StoreRedo

SpecStore == InitStore /\ [][NextStore]_vars

\* ------------------------------------------------------------ claims C2-C5
Called == gm.pc # "none"
Returned == gm.pc = "returned"

\* the 0-based place of the dot in the traversal order, for a dot that is in it
PlaceInOrder == CHOOSE i \in 0..(Len(two.order) - 1) : two.order[i + 1] = gm.dot
InOrder == \E i \in 1..Len(two.order) : two.order[i] = gm.dot

RECURSIVE Flatten(_)
Flatten(parts) == IF parts = <<>> THEN <<>> ELSE Head(parts) \o Flatten(Tail(parts))

\* C2: for a dot of the order and a cursor with remaining >= 0, a two-step
\* that returns has claimed at most the beats remaining at entry, and no nested
\* continuity was handed a negative remaining count.
C2_NeverClaimsMoreThanRemaining ==
    (Called /\ InOrder) =>
        /\ Returned => SumDurations(gm.moves) <= gm.entry.remaining
        /\ \A k \in 1..Len(gm.calls) : gm.calls[k].remaining >= 0

\* C3: the cursor object the caller passed has, after getMovements returns,
\* the position and the remaining count it had before the call.
C3_CursorNotMutated ==
    (Returned /\ InOrder) => (gm.data.position = gm.entry.position /\ gm.data.remaining = gm.entry.remaining)

\* C4: for a dot at 0-based place i of the order the first command returned
\* is a stop at the cursor's position lasting exactly 2*i beats, whatever the
\* length of the order, the beats remaining and the isMarktime flag.
C4_WaitIsTwiceIndex ==
    (Returned /\ InOrder) =>
        /\ Len(gm.moves) >= 1
        /\ gm.moves[1].type = "stop"
        /\ gm.moves[1].start = gm.entry.position
        /\ gm.moves[1].end = gm.entry.position
        /\ gm.moves[1].duration = 2 * PlaceInOrder

C4_Witness ==
    /\ Returned /\ InOrder
    /\ PlaceInOrder = 2
    /\ gm.moves[1].duration = 4
    /\ ~two.isMarktime
    /\ Len(gm.moves) = 3

\* C5: the k-th nested continuity is resolved with the beats remaining at
\* entry less the wait less the durations of all commands returned by the
\* nested continuities before it, at the end position of the last command
\* returned so far (the entry position if none); the result is the stop
\* followed by the nested continuities' commands in list order.
C5_NestedRunInOrderWithCursor ==
    Returned =>
        /\ Len(gm.calls) = Len(two.continuities)
        /\ Len(gm.parts) = Len(two.continuities)
        /\ \A k \in 1..Len(gm.calls) :
              LET before == Flatten(SubSeq(gm.parts, 1, k - 1))
              IN  /\ gm.calls[k].remaining =
                        gm.entry.remaining - gm.moves[1].duration - SumDurations(before)
                  /\ gm.calls[k].position =
                        IF before = <<>> THEN gm.entry.position
                        ELSE before[Len(before)].end
                  /\ gm.parts[k] =
                        NestedGetMovements(two.continuities[k], gm.dot, gm.calls[k]).moves
        /\ gm.moves = <<gm.moves[1]>> \o Flatten(gm.parts)

C5_Witness ==
    /\ Returned
    /\ Len(two.continuities) = 2
    /\ two.continuities[1].kind = "fwd"
    /\ gm.moves[1].duration = 2
    /\ Len(gm.moves) = 3
    /\ gm.calls[2].position # gm.entry.position
    /\ gm.calls[2].remaining = gm.entry.remaining - 2 - two.continuities[1].beats

\* ------------------------------------------------------- claims C1, C6-C9
\* C1: for every dot of the sheet the durations of its cached movement
\* commands add up to the sheet's beat count.
C1_DurationsSumToBeatCount ==
    \A label \in Labels : SumDurations(dots[label].movements) = numBeats

Asked(op) == q.op = op /\ q.pc # "none"
Movements == dots[q.dot].movements
\* the beats taken by the commands before the k-th
Before(k) == SumDurations(SubSeq(Movements, 1, k - 1))
Fits(k) == q.beatNum - Before(k) <= Movements[k].duration

\* C6: for a dot with commands and 0 <= beatNum <= their total duration,
\* getAnimationState answers from the first command k for which beatNum less
\* the durations of the commands before k is at most k's duration, at exactly
\* that offset, which lies within [0, duration of k].
C6_DelegatesToFirstFit ==
    (Asked("getAnimationState") /\ ~q.withSheet /\ Len(Movements) >= 1
        /\ q.beatNum <= SumDurations(Movements)) =>
        /\ q.pc = "returned"
        /\ q.index \in 1..Len(Movements)
        /\ Fits(q.index)
        /\ \A j \in 1..(q.index - 1) : ~Fits(j)
        /\ q.offset = q.beatNum - Before(q.index)
        /\ q.offset >= 0 /\ q.offset <= Movements[q.index].duration
        /\ q.state = AnimationState(Movements[q.index], q.offset)

C6_Witness ==
    /\ Asked("getAnimationState") /\ q.pc = "returned"
    /\ Len(Movements) = 3
    /\ q.beatNum = SumDurations(Movements)
    /\ q.index = 2
    /\ q.offset = Movements[2].duration /\ q.offset > 0
    /\ Movements[3].duration = 0

\* C7: a beatNum beyond the total duration of the dot's commands (any beatNum
\* for an empty list) ends in an out-of-range error that names the dot's
\* label and the beat requested.  (The claim also wants the sheet named; the
\* error's message has no such part at all.)
C7_OutOfRangeErrorIdentifies ==
    (Asked("getAnimationState") /\ ~q.withSheet
        /\ (q.beatNum > SumDurations(Movements) \/ Len(Movements) = 0)) =>
        /\ q.pc = "threw"
        /\ q.error.name = "AnimationStateError"
        /\ q.error.label = q.dot
        /\ q.error.beats = q.beatNum

LastPosition(label) ==
    IF dots[label].movements = <<>> THEN dots[label].position
    ELSE dots[label].movements[Len(dots[label].movements)].end

\* C8: for every dot of the sheet, loaded from it, getAnimationState(0)
\* succeeds with the dot's starting position and getAnimationState(beat
\* count) succeeds with the end position of the dot's last command.
C8_BoundaryStates ==
    (Asked("getAnimationState") /\ ~q.withSheet /\ q.dot \in loaded) =>
        /\ q.pc = "returned"
        /\ q.beatNum = 0 => q.state = dots[q.dot].position
        /\ q.beatNum = numBeats => q.state = LastPosition(q.dot)

Outcome == [pc |-> q.pc, error |-> q.error, index |-> q.index, offset |-> q.offset,
            state |-> q.state]

\* C9: a query with the sheet given answers as the same query with no
\* argument does once the sheet is loaded: getSheetInfo(S) is the entry S
\* holds for the dot's label, and the getters agree.
C9_SheetArgumentSameAsLoaded ==
    (q.pc # "none" /\ q.withSheet) =>
        /\ q.op = "getSheetInfo" => (q.pc = "returned" /\ q.info = dots[q.dot])
        /\ q.op = "getAnimationState" =>
              Outcome = getAnimationState(dots, q.dot, TRUE, q.beatNum, FALSE)
        /\ q.op = "getFirstPosition" => Outcome = getFirstPosition(dots, q.dot, TRUE, FALSE)
        /\ q.op = "getLastPosition" => Outcome = getLastPosition(dots, q.dot, TRUE, FALSE)

\* ---------------------------------------------------------------- claim C10
IsPrefix(s, t) == Len(s) <= Len(t) /\ s = SubSeq(t, 1, Len(s))

\* C10: do() of an undoable action pushes exactly one {label, snapshot}
\* entry onto the undo history and empties the redo history, unless it runs
\* as a redo, which leaves the redo history as it is; do() of an action that
\* is not undoable pushes nothing.
C10_DoRecordsOneEntry ==
    did.pc = "done" =>
        IF did.name \in {"addStuntsheet", "saveSelectionPositions"}
        THEN /\ Len(undoHistory) = Len(did.undoBefore) + 1
             /\ IsPrefix(did.undoBefore, undoHistory)
             /\ undoHistory[Len(undoHistory)].content = did.contentBefore
             /\ undoHistory[Len(undoHistory)].label =
                    (IF did.name = "addStuntsheet" THEN "Add Stuntsheet" ELSE "Move dots")
             /\ redoHistory = IF did.asRedo THEN did.redoBefore ELSE <<>>
        ELSE /\ IsPrefix(undoHistory, did.undoBefore)
             /\ redoHistory = did.redoBefore

C10_Witness ==
    /\ did.pc = "done"
    /\ did.name = "saveSelectionPositions"
    /\ ~did.asRedo
    /\ Len(did.redoBefore) = 2
    /\ Len(did.undoBefore) = 1
    /\ Len(undoHistory) = 2
    /\ redoHistory = <<>>

C10_WitnessAsRedo ==
    /\ did.pc = "done"
    /\ did.asRedo
    /\ did.name = "addStuntsheet"
    /\ Len(did.redoBefore) = 1
    /\ redoHistory = did.redoBefore
    /\ Len(undoHistory) = Len(did.undoBefore) + 1

\* --------------------------------------------------------- claims C11-C14
UndoCalled == did.name = "undo" /\ did.pc \in {"done", "returned"}

\* C11: undo() on a non-empty undo stack takes the top entry off the undo
\* stack and leaves the redo stack one entry longer than it was.
C11_UndoPushesOntoRedo ==
    (UndoCalled /\ Len(did.undoBefore) > 0) =>
        /\ undoHistory = SubSeq(did.undoBefore, 1, Len(did.undoBefore) - 1)
        /\ Len(redoHistory) = Len(did.redoBefore) + 1

\* the calls so far were n undoable edits, then n undos, then n redos
RunDone(n) == did.run.on /\ did.run.edits = n /\ did.run.undos = n /\ did.run.redos = n

\* C13: after n undoable edits, n undos and n redos the sheet is as it was
\* right after the last edit, the undo stack holds n entries and the redo
\* stack is empty.
C13_UndoRedoSymmetry ==
    \A n \in 1..MaxHist :
        RunDone(n) =>
            /\ dots = did.run.after
            /\ Len(undoHistory) = n
            /\ redoHistory = <<>>

\* C14: the undo() that follows do("saveSelectionPositions") puts the
\* position the sheet holds for every dot back to what it was before the edit.
C14_UndoRestoresPositions ==
    (did.run.on /\ did.run.edits >= 1 /\ did.run.undos = 1 /\ did.run.redos = 0
        /\ did.run.lastEdit = "saveSelectionPositions") =>
        \A label \in Labels :
            getInfoForDot(dots, LabelString(label)).position = did.run.before[label].position

\* ------------------------------------------------------------- claim C12
Handled(op) == store.last.op = op /\ store.last.pc # "none"

\* C12: undo() with an empty undo stack and redo() with an empty redo stack
\* change nothing and restore nothing: in the controller both stacks, the
\* sheet and the page stay as they are; in the store the History and the Show
\* stay as they are, the handler returns and Show.deserialize is not run.
C12_EmptyUndoRedoAreNoOps ==
    /\ (UndoCalled /\ did.undoBefore = <<>>) =>
           /\ undoHistory = <<>>
           /\ redoHistory = did.redoBefore
           /\ content = did.contentBefore
    /\ (did.name = "redo" /\ did.pc = "returned") =>
           /\ undoHistory = did.undoBefore
           /\ redoHistory = <<>>
           /\ content = did.contentBefore
    /\ ((Handled("undo") /\ store.last.historyBefore.undo = <<>>)
           \/ (Handled("redo") /\ store.last.historyBefore.redo = <<>>)) =>
           /\ store.last.pc = "returned"
           /\ ~store.last.deserialized
           /\ show = store.last.showBefore
           /\ store.history = store.last.historyBefore

\* the part of C12 that is about the controller
C12_ControllerPart ==
    /\ (UndoCalled /\ did.undoBefore = <<>>) =>
           (undoHistory = <<>> /\ redoHistory = did.redoBefore /\ content = did.contentBefore)
    /\ (did.name = "redo" /\ did.pc = "returned") =>
           (undoHistory = did.undoBefore /\ redoHistory = <<>> /\ content = did.contentBefore)

\* ------------------------------------------------------------- claim C15
\* C15: a modifyShow commit applies func to the target and then adds one
\* state to the History: the History's undo stack is the one before with one
\* entry more, labelled func, holding the serialization of the Show as the
\* store has it after the mutation; a modifyShow that throws has changed
\* neither the Show nor the History.
C15_ModifyShowRecordsAfterApplying ==
    Handled("modifyShow") =>
        IF store.last.pc = "returned"
        THEN /\ store.history.undo =
                    Append(store.last.historyBefore.undo,
                           [label |-> store.last.func, snapshot |-> ShowSerialize(show)])
             /\ store.last.func \in SongFuncs
             /\ \E target \in Songs, arg \in SheetIds :
                    show = applyFunc(store.last.showBefore, target, store.last.func, arg)
        ELSE /\ show = store.last.showBefore
             /\ store.history = store.last.historyBefore

C15_Witness ==
    /\ Handled("modifyShow") /\ store.last.pc = "returned"
    /\ store.last.func = "addSheet"
    /\ show # store.last.showBefore
    /\ Len(store.history.undo) = MaxStates
    /\ store.history.undo[MaxStates].snapshot # store.history.initial
    /\ store.last.historyBefore.redo # <<>>
    /\ \E s \in SheetIds :
           /\ getSong(store.last.showBefore, s) # NoSong
           /\ getSong(show, s) \notin {NoSong, getSong(store.last.showBefore, s)}

\* ------------------------------------------------------------- claim C20
\* C20: after any addSheet and removeSheet calls on any songs, for every
\* song g and sheet s, g.hasSheet(s) holds exactly when s.getSong() is g.
C20_SongSheetLinkAgrees ==
    \A g \in Songs, s \in SheetIds : hasSheet(show, g, s) <=> (getSong(show, s) = g)

\* ------------------------------------------------------------- claim C16
Mutated == mut.pc # "none"

\* C16: a mutation of the sheet or of a two-step's list that has ended has
\* run the sheet's recomputation of the movements of its dot type.
C16_MutationRecomputes == Mutated => mut.updated

\* ------------------------------------------------------------- claim C17
\* C17: the sheet Sheet.deserialize makes of sheet.serialize() has the beat
\* count, label and field type of the sheet, for every dot its type, starting
\* position and movement commands, and the same continuity list.
C17_SheetRoundTrips ==
    Asked("Sheet.deserialize") =>
        /\ q.info.numBeats = numBeats
        /\ q.info.label = "null" /\ q.info.fieldType = "null"
        /\ q.info.continuities = continuities
        /\ \A label \in Labels :
              /\ q.info.dots[label].type = dots[label].type
              /\ q.info.dots[label].position = dots[label].position
              /\ Len(q.info.dots[label].movements) = Len(dots[label].movements)
              /\ \A i \in 1..Len(dots[label].movements) :
                    q.info.dots[label].movements[i] = dots[label].movements[i]

\* --------------------------------------------------------- claims C18, C19
Did(op) == mut.op = op /\ mut.pc # "none"

Moved(list, from, to) ==
    LET rest == SubSeq(list, 1, from) \o SubSeq(list, from + 2, Len(list))
    IN  SubSeq(rest, 1, to) \o <<list[from + 1]>> \o SubSeq(rest, to + 1, Len(rest))

\* the number of places of the list that hold the continuity
Count(list, continuity) == Cardinality({i \in 1..Len(list) : list[i] = continuity})

\* C19: moveContinuity(continuity, delta), for a continuity of the nested
\* list at index: with index + delta a valid index it has moved the continuity
\* there, kept the others in their order, recomputed and returned true;
\* otherwise it has returned false and left the list as it was; either way
\* the list holds the continuities it held before.
C19_MoveContinuity ==
    (Did("TwoStep.moveContinuity") /\ indexOf(mut.listBefore, mut.arg) >= 0) =>
        LET index == indexOf(mut.listBefore, mut.arg)
            newIndex == index + mut.delta
        IN  /\ \A c \in Nested : Count(two.continuities, c) = Count(mut.listBefore, c)
            /\ IF newIndex >= 0 /\ newIndex < Len(mut.listBefore)
               THEN /\ mut.pc = "returned" /\ mut.value = "true"
                    /\ two.continuities = Moved(mut.listBefore, index, newIndex)
                    /\ mut.updated
               ELSE /\ mut.pc = "returned" /\ mut.value = "false"
                    /\ two.continuities = mut.listBefore

\* ------------------------------------------------------------- claim C21
\* the state objects the History holds
Snapshots(h) ==
    {h.initial} \cup {h.undo[i].snapshot : i \in 1..Len(h.undo)}
                \cup {h.redo[i].snapshot : i \in 1..Len(h.redo)}

\* a state object as show.serialize() made it: every song's enums are values
AsRecorded(state) ==
    \A g \in Songs : /\ state.songs[g].orientation = EnumValue
                      /\ state.songs[g].stepType = EnumValue

\* C21: after any modifyShow, undo and redo, every state object the History
\* holds is field for field what show.serialize() returned when it was
\* recorded: restoring a state on undo or redo does not write to it.
C21_SnapshotsStayAsRecorded ==
    \A state \in Snapshots(store.history) : AsRecorded(state)

\* ------------------------------------------------------------- claim C28
\* C28: after the store's undo or redo has replaced the Show, the active
\* formation of the editor state is null or a formation of the Show now in
\* the store, never a formation of the Show that was replaced.
C28_FormationIsOfCurrentShow ==
    ((Handled("undo") \/ Handled("redo")) /\ store.last.pc = "returned") =>
        store.formation \in {"null", "ofShow"}

\* ------------------------------------------------------------- claim C25
\* C25: Sheet.removeContinuity(dotType, c) leaves the dot type's list as it
\* was when c is not in it, and otherwise takes out the entry c and keeps
\* every other continuity in its order.
C25_RemovesOnlyThatContinuity ==
    mut.op = "Sheet.removeContinuity" =>
        LET index == indexOf(mut.listBefore, mut.arg)
        IN  IF index = -1 THEN continuities = mut.listBefore
            ELSE continuities = SubSeq(mut.listBefore, 1, index)
                                    \o SubSeq(mut.listBefore, index + 2, Len(mut.listBefore))

\* ------------------------------------------------------------- claim C26
\* C26: every movement command a getMovements call of the two-step returns
\* has a duration of zero beats or more, whichever dot it was called with,
\* a dot that is not in the two-step's order included.
C26_DurationsNonNegative ==
    Returned => \A i \in 1..Len(gm.moves) : getDuration(gm.moves[i]) >= 0

\* ------------------------------------------------------------- claim C29
\* C29: when do("addStuntsheet") has run and its popup is then cancelled or
\* fails its validation, the undo history and the redo history are what they
\* were before do() was called: an entry is pushed and the redo history
\* emptied only when a sheet is added.
C29_NoEntryWithoutSheet ==
    (did.name = "addStuntsheet" /\ did.pc = "done" /\ ~did.asRedo
        /\ popup.answer \in {"cancelled", "invalid"}) =>
            /\ undoHistory = did.undoBefore
            /\ redoHistory = did.redoBefore

\* ------------------------------------------------------------- claim C27
\* the handlers a context registers when it is loaded
Registered(c) == IF c.current = "default" THEN <<c.id>> ELSE <<>>

\* C27: after any sequence of loadContext calls the handlers registered on
\* the workspace and on the document are those of the one current context,
\* so a mousedown in the workspace runs at most one handler.
C27_OnlyCurrentHandlers ==
    /\ ctx.workspace = Registered(ctx)
    /\ ctx.document = Registered(ctx)
    /\ ctx.last.type = "mousedown" => ctx.last.ran <= 1

\* ------------------------------------------------------------- claim C23
DefaultLoaded == ctx.current = "default"

\* C23: every closure's drag state is none, drag or select; in the loaded
\* default context a mousemove in state none changes nothing and every
\* mouseup leaves the state none; saveSelectionPositions is dispatched at
\* most once since the last mousedown, only by a mouseup in state drag of a
\* gesture that started on a dot while a selected dot has moved, and never
\* in a gesture that started on the field.
C23_DragStateMachine ==
    /\ \A i \in Closures : ctx.dragState[i] \in {"none", "drag", "select"}
    /\ (DefaultLoaded /\ ctx.last.type = "mousemove" /\ ctx.last.stateBefore = "none") =>
           /\ DragState(ctx) = "none"
           /\ ctx.selected = ctx.last.selectedBefore
           /\ ctx.moved = ctx.last.movedBefore
           /\ ctx.dispatched = ctx.last.dispatchedBefore
    /\ (DefaultLoaded /\ ctx.last.type = "mouseup") => DragState(ctx) = "none"
    /\ ctx.dispatched <= 1
    /\ ctx.dispatched > ctx.last.dispatchedBefore =>
           /\ ctx.last.type = "mouseup"
           /\ ctx.last.stateBefore = "drag"
           /\ ctx.startedOnDot
           /\ ctx.last.selectedBefore \cap ctx.last.movedBefore # {}
    /\ ~ctx.startedOnDot => ctx.dispatched = 0

\* a drag of two selected dots that ends in the one dispatch, in a context
\* that is not the first one loaded
C23_Witness ==
    /\ DefaultLoaded /\ ctx.id = 2
    /\ ctx.last.type = "mouseup" /\ ctx.last.stateBefore = "drag"
    /\ ctx.dispatched = 1 /\ ctx.last.dispatchedBefore = 0
    /\ ctx.last.selectedBefore = PageDots

\* ------------------------------------------------------------- claim C24
\* the recomputation counts `before` after n more of dot type t
Recomputed(before, t, n) == [before EXCEPT ![t] = @ + n]

\* C24: after setReference(point, continuity) the reference is the point
\* and the continuity's dot type has been recomputed once; after the undo
\* function it returned, the reference is what it was before the action and
\* the dot type has been recomputed once more; no other dot type is
\* recomputed by either.
C24_SetReferenceReversible ==
    /\ gate.last.op = "setReference" =>
           /\ gate.reference = gate.last.point
           /\ gate.updates = Recomputed(gate.last.updatesBefore, gate.dotType, 1)
    /\ gate.last.op = "undo" =>
           /\ gate.reference = gate.last.before
           /\ gate.updates = Recomputed(gate.last.updatesBefore, gate.dotType, 2)

\* the second setReference, to another point, has been undone
C24_Witness ==
    /\ gate.last.op = "undo"
    /\ gate.last.point # gate.last.before
    /\ gate.reference = gate.last.before
    /\ gate.updates[gate.dotType] = 3
    /\ gate.dotType = "solid"

\* ------------------------------------------------------------- claim C22
\* the ArcTool handled the last event, in its first or in its second phase
ArcFirstPhase == tool.last.before.current = "arc" /\ ~tool.last.before.drawEnd
ArcSecondPhase == tool.last.before.current = "arc" /\ tool.last.before.drawEnd
ArcKept == /\ tool.arc.origin = tool.last.before.origin
           /\ tool.arc.radius = tool.last.before.radius

\* C22: in the ArcTool's first phase no event dispatches moveDotsTo; its
\* mousedown sets the origin and the mouseup after it keeps origin and
\* radius, isDone() returns false and the second phase has begun.  In the
\* second phase a mousedown changes nothing; the mouseup dispatches
\* moveDotsTo exactly once and, when it has returned, isDone() returns true
\* and the tool is in its first phase again.
C22_ArcToolTwoPhases ==
    /\ (ArcFirstPhase /\ tool.last.event \in {"mousedown", "mousemove", "mouseup"}) =>
           tool.moveDotsTo = tool.last.before.moveDotsTo
    /\ (ArcFirstPhase /\ tool.last.event = "mousedown") =>
           (tool.arc.origin \in ToolPoints /\ tool.arc.radius = 0 /\ ~tool.arc.drawEnd)
    /\ (ArcFirstPhase /\ tool.last.event = "mouseup" /\ tool.last.before.origin # Unset) =>
           /\ tool.last.pc = "returned" /\ tool.last.isDone = "false"
           /\ ArcKept /\ tool.arc.drawEnd /\ tool.current = "arc"
    /\ (ArcSecondPhase /\ tool.last.event = "mousedown") =>
           (ArcKept /\ tool.arc.drawEnd /\ tool.moveDotsTo = tool.last.before.moveDotsTo)
    /\ (ArcSecondPhase /\ tool.last.event = "mouseup") =>
           /\ tool.moveDotsTo = tool.last.before.moveDotsTo + 1
           /\ tool.last.pc = "returned" => (tool.last.isDone = "true" /\ ~tool.arc.drawEnd)

\* the second mouseup of an arc of radius 2 has returned
C22_Witness ==
    /\ ArcSecondPhase /\ tool.last.event = "mouseup" /\ tool.last.pc = "returned"
    /\ tool.last.before.radius = 2
    /\ tool.moveDotsTo = 1
    /\ tool.current = "lasso"

\* ------------------------------------------------------------- claim C30
\* the last event was the mouseup that ends the gesture of an edit tool
EditGestureEnded ==
    /\ tool.last.event = "mouseup"
    /\ tool.last.before.current \in BaseEditTools
    /\ tool.last.before.current = "arc" => tool.last.before.drawEnd

\* C30: a load of a selection tool makes its name the lastSelectionTool and
\* no other load, failed or not, changes it; the mouseup that ends an edit
\* tool's gesture returns with that selection tool loaded as the context's
\* tool, whatever tools were loaded before.
C30_LastSelectionToolLoads ==
    /\ tool.last.event = "load" =>
           tool.lastSelectionTool =
               IF tool.last.name \in BaseSelectionTools THEN tool.last.name
               ELSE tool.last.before.lastSelectionTool
    /\ tool.last.event # "load" =>
           tool.lastSelectionTool = tool.last.before.lastSelectionTool
    /\ EditGestureEnded =>
           /\ tool.last.pc = "returned"
           /\ tool.current = tool.last.before.lastSelectionTool
           /\ tool.current \in BaseSelectionTools

====
